---- MODULE Spec2Model ----
(***************************************************************************)
(* Type algebra, unifier, schemes and inferencer of src/src/type.ts        *)
(* (second revision, lines 246-592).                                       *)
(*                                                                         *)
(* Representation.                                                         *)
(*   - A type-variable name is an integer: n >= 0 is the name `T<n>` that  *)
(*     fresh() builds from the counter, n < 0 is a name written by the     *)
(*     user (lower case, so never equal to a `T<n>`).                      *)
(*   - A JavaScript object used as a map (row items, substitutions, typing *)
(*     environments) is a sequence of <<key, value>> pairs with distinct   *)
(*     keys, in insertion order, which is the order Object.keys,           *)
(*     Object.entries, mapValues and filterValues visit.                   *)
(*   - A function that can throw and that may call fresh() takes the       *)
(*     counter state n = [i, log] and returns [ok, v, n]: ok = FALSE is a  *)
(*     thrown TypeError, n the counter state after the call. log lists the *)
(*     names fresh() returned.                                             *)
(***************************************************************************)
EXTENDS Integers, Sequences, FiniteSets, TLC

VARIABLES i, issued, calls, steps, t1, t2, s1, s2, ex, typeContext, op, res,
          valueContext, heap, line, console, pending, trace

vars == <<i, issued, calls, steps, t1, t2, s1, s2, ex, typeContext, op, res,
          valueContext, heap, line, console, pending, trace>>

----------------------------------------------------------------------------
(* Bounds of the model *)

\* number of user-written type variables that may occur as row items / arguments
NVars == 2
\* largest number of keys of a generated row
MaxItems == 2
\* operations applied one after another to the drawn inputs
MaxSteps == 1
\* largest number of bindings of a generated substitution
MaxBindings == 2
\* largest number of cases of a generated match
MaxCases == 2
\* calls made one after another on the inputs of the inferencer
MaxOps == 2
\* lines read by the REPL
MaxLines == 3

----------------------------------------------------------------------------
(* Ordered maps: JavaScript objects *)

Keys(m) == [j \in 1..Len(m) |-> m[j][1]]

KeySet(m) == {m[j][1] : j \in 1..Len(m)}

Has(m, k) == \E j \in 1..Len(m) : m[j][1] = k

Get(m, k) == m[CHOOSE j \in 1..Len(m) : m[j][1] = k][2]

\* obj[k] = v
Put(m, k, v) ==
    IF Has(m, k)
    THEN [j \in 1..Len(m) |-> IF m[j][1] = k THEN <<k, v>> ELSE m[j]]
    ELSE Append(m, <<k, v>>)

RECURSIVE Spread(_, _)
\* { ...m1, ...m2 }
Spread(m1, m2) ==
    IF m2 = <<>> THEN m1
    ELSE Spread(Put(m1, m2[1][1], m2[1][2]), Tail(m2))

\* filterValues(m, (_, k) => !other[k])
Minus(m, other) == SelectSeq(m, LAMBDA p : ~Has(other, p[1]))

RECURSIVE Dedup(_, _)
\* new Set([...xs]) : first occurrences, in order
Dedup(xs, acc) ==
    IF xs = <<>> THEN acc
    ELSE Dedup(Tail(xs), IF \E j \in 1..Len(acc) : acc[j] = xs[1] THEN acc ELSE Append(acc, xs[1]))

Range(s) == {s[j] : j \in 1..Len(s)}

RECURSIVE ConcatAll(_)
\* [...].flat()
ConcatAll(ss) == IF ss = <<>> THEN <<>> ELSE ss[1] \o ConcatAll(Tail(ss))

----------------------------------------------------------------------------
(* Types *)

TId(n) == [kind |-> "id", name |-> n]

Cons(name, args) == [kind |-> "cons", name |-> name, args |-> args]

TRec(union, open, items, rest) ==
    [kind |-> "rec", union |-> union, open |-> open, items |-> items, rest |-> rest]

Num == Cons("Num", <<>>)

Str == Cons("Str", <<>>)

List(t) == Cons("List", <<t>>)

Lam(types) == Cons("Func", types)

\* results of functions that may throw
Ok(v, n) == [ok |-> TRUE, v |-> v, n |-> n]

Fail(n) == [ok |-> FALSE, v |-> <<>>, n |-> n]

\* the statements after a call: they run on the value and the counter the call
\* returned, and a throw leaves the function
Do(r, K(_, _)) == IF r.ok THEN K(r.v, r.n) ELSE Fail(r.n)

----------------------------------------------------------------------------
(* Fresh-variable supply *)

freshStuck(n) == [id |-> TId(n.i), n |-> [i |-> n.i, log |-> Append(n.log, n.i)]]

\* { kind: 'id', name: `T${i++}` }
fresh(n) == [id |-> TId(n.i), n |-> [i |-> n.i + 1, log |-> Append(n.log, n.i)]]

\* i after the module is loaded: Unit, Void, AnyCons and AnyRec each took a name
InitialCounter == 4

----------------------------------------------------------------------------
(* apply, compose, free *)

RECURSIVE apply(_, _, _)
RECURSIVE applyAll(_, _, _, _)

\* apply(type)(ctx)
apply(t, ctx, n) ==
    IF t.kind = "cons" THEN
        Do(applyAll([j \in 1..Len(t.args) |-> <<j, t.args[j]>>], ctx, <<>>, n),
           LAMBDA args, n1 : Ok(Cons(t.name, [j \in 1..Len(args) |-> args[j][2]]), n1))
    ELSE IF t.kind = "id" THEN
        Ok(IF Has(ctx, t.name) THEN Get(ctx, t.name) ELSE t, n)
    ELSE
        Do(applyAll(t.items, ctx, <<>>, n),
           LAMBDA r, n1 :
             LET tl == IF Has(ctx, t.rest.name) THEN Get(ctx, t.rest.name) ELSE t.rest
                 f  == fresh(n1)
             IN  IF tl.kind = "id" THEN Ok(TRec(t.union, t.open, r, tl), n1)
                 ELSE IF tl.kind = "rec" /\ tl.union = t.union THEN
                     Ok(TRec(t.union, t.open /\ tl.open, Spread(r, tl.items), f.id), f.n)
                 ELSE Fail(n1))

\* mapValues(m, val => apply(val)(ctx)), left to right
applyAll(m, ctx, acc, n) ==
    IF m = <<>> THEN Ok(acc, n)
    ELSE Do(apply(m[1][2], ctx, n),
            LAMBDA v, n1 : applyAll(Tail(m), ctx, Append(acc, <<m[1][1], v>>), n1))

applyToType(subst, type, n) == apply(type, subst, n)

\* a variant of compose in which ctx1's binding wins when both bind a variable
composeLeft(ctx1, ctx2, n) == applyAll(Spread(ctx2, ctx1), ctx1, <<>>, n)

\* mapValues({ ...ctx1, ...ctx2 }, t => applyToType(ctx1, t))
compose(ctx1, ctx2, n) == applyAll(Spread(ctx1, ctx2), ctx1, <<>>, n)

RECURSIVE free(_)
RECURSIVE freeAll(_)

freeWithTails(t) ==
    IF t.kind = "cons" THEN Dedup(freeAll(t.args), <<>>)
    ELSE IF t.kind = "id" THEN <<t.name>>
    ELSE Dedup(freeAll([j \in 1..Len(t.items) |-> t.items[j][2]]) \o <<t.rest.name>>, <<>>)

\* free(type), as the ordered Set it builds
free(t) ==
    IF t.kind = "cons" THEN Dedup(freeAll(t.args), <<>>)
    ELSE IF t.kind = "id" THEN <<t.name>>
    ELSE Dedup(freeAll([j \in 1..Len(t.items) |-> t.items[j][2]])
                 \o (IF t.open THEN <<t.rest.name>> ELSE <<>>), <<>>)

freeAll(ts) == IF ts = <<>> THEN <<>> ELSE free(ts[1]) \o freeAll(Tail(ts))

occurs(name, t) == name \in Range(free(t))

----------------------------------------------------------------------------
(* Unifier *)

bindNoOccurs(name, t, n) ==
    IF t.kind = "id" /\ t.name = name THEN Ok(<<>>, n) ELSE Ok(<< <<name, t>> >>, n)

bind(name, t, n) ==
    IF t.kind = "id" /\ t.name = name THEN Ok(<<>>, n)
    ELSE IF occurs(name, t) THEN Fail(n)
    ELSE Ok(<< <<name, t>> >>, n)

\* compose(unify(a, b), subst) once unify(a, b) has returned u
Then(u, subst) == Do(u, LAMBDA s, n1 : compose(s, subst, n1))

\* a variant of widthOk that does not look at the keys only the second row has
widthOkOneSided(a, b) ==
    (a.open /\ b.open) \/ (Len(Minus(a.items, b.items)) = 0) \/ b.open

widthOkLoose(a, b) ==
    LET assignableToT1 == (Len(Minus(b.items, a.items)) = 0) \/ a.open
        assignableToT2 == (Len(Minus(a.items, b.items)) = 0) \/ b.open
    IN  (a.open /\ b.open) \/ (assignableToT1 \/ assignableToT2)

\* open || (assignableToT1 && assignableToT2)
widthOk(a, b) ==
    LET assignableToT1 == (Len(Minus(b.items, a.items)) = 0) \/ a.open
        assignableToT2 == (Len(Minus(a.items, b.items)) = 0) \/ b.open
    IN  (a.open /\ b.open) \/ (assignableToT1 /\ assignableToT2)

\* a variant of rowKindMismatch that lets a record meet a variant
rowKindMismatchNever(a, b) == FALSE

\* t1.union !== t2.union
rowKindMismatch(a, b) == a.union # b.union

RECURSIVE unify(_, _, _)
RECURSIVE unifyArgs(_, _, _, _)
RECURSIVE unifyItems(_, _, _, _, _)

unify(a, b, n) ==
    IF a.kind = "id" THEN bind(a.name, b, n)
    ELSE IF b.kind = "id" THEN bind(b.name, a, n)
    ELSE IF a.kind # b.kind THEN Fail(n)
    ELSE IF a.kind = "cons" THEN
        IF a.name # b.name THEN Fail(n)
        ELSE IF Len(a.args) # Len(b.args) THEN Fail(n)
        ELSE unifyArgs(a.args, b.args, <<>>, n)
    ELSE
        IF rowKindMismatch(a, b) THEN Fail(n)
        ELSE
        LET intersection == SelectSeq(Keys(a.items), LAMBDA k : Has(b.items, k))
            t1Minust2 == Minus(a.items, b.items)
            t2Minust1 == Minus(b.items, a.items)
            open == a.open /\ b.open
        IN  Do(unifyItems(intersection, a.items, b.items, <<>>, n), LAMBDA u0, n0 :
            LET f == fresh(n0)
                rest == f.id
            IN  Do(Then(unify(rest, a.rest, f.n), u0), LAMBDA u1, n1 :
                Do(Then(unify(rest, b.rest, n1), u1), LAMBDA u2, n2 :
                IF widthOk(a, b) THEN
                    Do(Then(unify(a.rest, TRec(a.union, open, t2Minust1, rest), n2), u2), LAMBDA u3, n3 :
                    Then(unify(b.rest, TRec(a.union, open, t1Minust2, rest), n3), u3))
                ELSE Fail(n2))))

\* t1.args.forEach((t, i) => subst = compose(unify(apply(t)(subst), apply(t2.args[i])(subst)), subst))
unifyArgs(as, bs, subst, n) ==
    IF as = <<>> THEN Ok(subst, n)
    ELSE Do(apply(as[1], subst, n), LAMBDA x, n1 :
         Do(apply(bs[1], subst, n1), LAMBDA y, n2 :
         Do(Then(unify(x, y, n2), subst), LAMBDA s, n3 :
         unifyArgs(Tail(as), Tail(bs), s, n3))))

\* for (const k of intersection) { subst = compose(unify(t1.items[k], t2.items[k]), subst) }
unifyItems(ks, ai, bi, subst, n) ==
    IF ks = <<>> THEN Ok(subst, n)
    ELSE Do(Then(unify(Get(ai, ks[1]), Get(bi, ks[1]), n), subst), LAMBDA s, n1 :
         unifyItems(Tail(ks), ai, bi, s, n1))

----------------------------------------------------------------------------
(* Schemes *)

Scheme(args, type) == [kind |-> "scheme", args |-> args, type |-> type]

\* {kind: 'scheme', args: [...free(type)], type}
generalize(type) == Scheme(free(type), type)

RECURSIVE freshEach(_, _, _)
\* Object.fromEntries(args.map(arg => [arg, fresh()]))
freshEach(args, acc, n) ==
    IF args = <<>> THEN Ok(acc, n)
    ELSE LET f == fresh(n) IN freshEach(Tail(args), Put(acc, args[1], f.id), f.n)

\* a variant of instantiate that returns the scheme's body as it is
instantiateShared(scheme, n) == Ok(scheme.type, n)

\* apply(type)(Object.fromEntries(args.map(arg => [arg, fresh()])))
instantiate(scheme, n) ==
    Do(freshEach(scheme.args, <<>>, n), LAMBDA m, n1 : apply(scheme.type, m, n1))

----------------------------------------------------------------------------
(* Expressions and patterns (src/src/expr.ts) *)

None == [type |-> "none"]

\* a literal's value is <<"number", v>> or <<"string", v>>
ELit(value) == [type |-> "lit", value |-> value]

EId(name) == [type |-> "id", name |-> name]

ECons(name, value) == [type |-> "cons", name |-> name, value |-> value]

ERec(record) == [type |-> "rec", record |-> record]

EList(values) == [type |-> "list", values |-> values]

EAcc(rec, prop) == [type |-> "acc", rec |-> rec, prop |-> prop]

EApp(fn, args) == [type |-> "app", fn |-> fn, args |-> args]

ELam(args, body) == [type |-> "lam", args |-> args, body |-> body]

EMatch(value, cases, otherwise) ==
    [type |-> "match", value |-> value, cases |-> cases, otherwise |-> otherwise]

PatCons(name, value) == [type |-> "patcons", name |-> name, value |-> value]

PatRec(record) == [type |-> "patrec", record |-> record]

PatList(values) == [type |-> "patlist", values |-> values]

RECURSIVE toExpr(_)
toExpr(p) ==
    IF p.type = "patlist" THEN EList([j \in 1..Len(p.values) |-> toExpr(p.values[j])])
    ELSE IF p.type = "patrec" THEN
        ERec([j \in 1..Len(p.record) |-> <<p.record[j][1], toExpr(p.record[j][2])>>])
    ELSE p

toConsExpr(p) == ECons(p.name, IF p.value.type = "none" THEN None ELSE toExpr(p.value))

\* the characters of an identifier, as iterating the string yields them
Chars(name) == IF name = "xs" THEN <<"x", "s">> ELSE <<name>>

\* new Set(...names): the constructor reads its first argument only, and iterates it
SetOfSpread(names) == IF names = <<>> THEN <<>> ELSE Dedup(Chars(names[1]), <<>>)

RECURSIVE freeVars(_)
\* freeVars on the expressions a pattern projects to (lit, id, rec, list, cons)
freeVars(e) ==
    IF e.type = "lit" THEN <<>>
    ELSE IF e.type = "id" THEN <<e.name>>
    ELSE IF e.type = "rec" THEN
        SetOfSpread(ConcatAll([j \in 1..Len(e.record) |-> freeVars(e.record[j][2])]))
    ELSE IF e.type = "list" THEN
        SetOfSpread(ConcatAll([j \in 1..Len(e.values) |-> freeVars(e.values[j])]))
    ELSE IF e.value.type = "none" THEN <<>> ELSE freeVars(e.value)

----------------------------------------------------------------------------
(* Inferencer *)

Unit == TRec(FALSE, FALSE, <<>>, TId(0))

\* rec => ({ ...rec, open: !rec.open })
reverse(t) == IF t.kind = "rec" THEN [t EXCEPT !.open = ~t.open] ELSE t

\* a variant of patternRow that closes the pattern's row with or without otherwise
patternRowClosed(otherwise, tPtn) == IF tPtn.kind = "rec" THEN [tPtn EXCEPT !.open = FALSE] ELSE tPtn

\* match: otherwise ? tPtn : reverse(tPtn)
patternRow(otherwise, tPtn) == IF otherwise.type # "none" THEN tPtn ELSE reverse(tPtn)

\* applyToType(filterValues(subst, (_, k) => !scheme.args.includes(k)), scheme.type)
applyToScheme(subst, scheme, n) ==
    Do(apply(scheme.type, SelectSeq(subst, LAMBDA p : p[1] \notin Range(scheme.args)), n),
       LAMBDA t, n1 : Ok(Scheme(scheme.args, t), n1))

RECURSIVE applySubstFrom(_, _, _, _)
applySubstFrom(subst, env, acc, n) ==
    IF env = <<>> THEN Ok(acc, n)
    ELSE Do(applyToScheme(subst, env[1][2], n), LAMBDA sch, n1 :
         applySubstFrom(subst, Tail(env), Append(acc, <<env[1][1], sch>>), n1))

\* mapValues(env, scheme => applyToScheme(subst, scheme))
applySubst(subst, env, n) == applySubstFrom(subst, env, <<>>, n)

RECURSIVE monoEach(_, _, _)
\* Object.fromEntries(names.map(v => [v, {kind: 'scheme', args: [], type: fresh()}]))
monoEach(names, acc, n) ==
    IF names = <<>> THEN Ok(acc, n)
    ELSE LET f == fresh(n)
         IN  monoEach(Tail(names), Put(acc, names[1], Scheme(<<>>, f.id)), f.n)

TypeOf(value) == value[1]

RECURSIVE infer(_, _, _)
RECURSIVE inferFields(_, _, _, _, _)
RECURSIVE inferValues(_, _, _, _, _)
RECURSIVE inferArgs(_, _, _, _, _)
RECURSIVE inferCases(_, _, _, _, _, _)
RECURSIVE inferOtherwise(_, _, _, _, _)

\* rec: mapValues(record, v => { [s, t] = v(c); subst = compose(s, subst); return t })
inferFields(record, c, subst, items, n) ==
    IF record = <<>> THEN Ok(<<subst, items>>, n)
    ELSE Do(infer(record[1][2], c, n), LAMBDA r, n1 :
         Do(compose(r[1], subst, n1), LAMBDA s, n2 :
         inferFields(Tail(record), c, s, Append(items, <<record[1][1], r[2]>>), n2)))

RECURSIVE inferValuesLast(_, _, _, _, _)
\* a variant of inferValues that does not unify the elements' types
inferValuesLast(values, c, subst, t, n) ==
    IF values = <<>> THEN Ok(<<subst, t>>, n)
    ELSE Do(infer(values[1], c, n), LAMBDA r, n1 :
         Do(compose(r[1], subst, n1), LAMBDA sa, n2 :
         inferValuesLast(Tail(values), c, sa, r[2], n2)))

\* list: for (const val of values) { ... }
inferValues(values, c, subst, t, n) ==
    IF values = <<>> THEN Ok(<<subst, t>>, n)
    ELSE Do(infer(values[1], c, n), LAMBDA r, n1 :
         Do(compose(r[1], subst, n1), LAMBDA sa, n2 :
         Do(unify(t, r[2], n2), LAMBDA su, n3 :
         Do(apply(t, su, n3), LAMBDA tn, n4 :
         Do(compose(su, sa, n4), LAMBDA sb, n5 :
         inferValues(Tail(values), c, sb, tn, n5))))))

\* app: args.map(arg => { [s, tArg] = arg(c); subst = compose(s, subst); return tArg })
inferArgs(args, c, subst, tArgs, n) ==
    IF args = <<>> THEN Ok(<<subst, tArgs>>, n)
    ELSE Do(infer(args[1], c, n), LAMBDA r, n1 :
         Do(compose(r[1], subst, n1), LAMBDA s, n2 :
         inferArgs(Tail(args), c, s, Append(tArgs, r[2]), n2)))

\* match: for (const [ptn, e] of cases) { ... }, returning <<subst, tPtn, out>>
inferCases(cases, c, subst, tPtn, out, n) ==
    IF cases = <<>> THEN Ok(<<subst, tPtn, out>>, n)
    ELSE LET ptnExpr == toConsExpr(cases[1][1])
             fv == freeVars(ptnExpr)
         IN  Do(monoEach(fv, <<>>, n), LAMBDA ctx, n1 :
             Do(infer(ptnExpr, ctx, n1), LAMBDA pr, n2 :
             Do(applySubst(pr[1], ctx, n2), LAMBDA ctx2, n3 :
             Do(Then(unify(tPtn, pr[2], n3), subst), LAMBDA sa, n4 :
             Do(apply(pr[2], sa, n4), LAMBDA ptnTypeRaw, n5 :
             Do(apply(tPtn, sa, n5), LAMBDA tp1, n6 :
             Do(applySubst(sa, Spread(c, ctx2), n6), LAMBDA env, n7 :
             Do(infer(cases[1][2], env, n7), LAMBDA er, n8 :
             Do(compose(er[1], sa, n8), LAMBDA sb, n9 :
             Do(apply(er[2], sb, n9), LAMBDA tE, n10 :
             Do(Then(unify(tE, out, n10), sb), LAMBDA sc, n11 :
             Do(apply(tp1, sc, n11), LAMBDA tp2, n12 :
             Do(apply(out, sc, n12), LAMBDA out2, n13 :
             inferCases(Tail(cases), c, sc, tp2, out2, n13))))))))))))))

\* match: if (otherwise) { ... }
inferOtherwise(otherwise, c, subst, out, n) ==
    IF otherwise.type = "none" THEN Ok(subst, n)
    ELSE Do(infer(otherwise, c, n), LAMBDA ro, n1 :
         Do(compose(ro[1], subst, n1), LAMBDA sc, n2 :
         Do(apply(ro[2], sc, n2), LAMBDA tOtherwise, n3 :
         Then(unify(tOtherwise, out, n3), sc))))

\* infer(expr)(c): <<substitution, type>>
infer(e, c, n) ==
    IF e.type = "lit" THEN
        Ok(<< <<>>, IF TypeOf(e.value) = "number" THEN Num ELSE Str >>, n)
    ELSE IF e.type = "rec" THEN
        Do(inferFields(e.record, c, <<>>, <<>>, n), LAMBDA r, n1 :
        LET f == fresh(n1) IN Ok(<<r[1], TRec(FALSE, FALSE, r[2], f.id)>>, f.n))
    ELSE IF e.type = "list" THEN
        LET f == fresh(n)
        IN  Do(inferValues(e.values, c, <<>>, f.id, f.n), LAMBDA r, n1 :
            Do(apply(r[2], r[1], n1), LAMBDA t, n2 :
            Ok(<<r[1], Cons("List", <<t>>)>>, n2)))
    ELSE IF e.type = "id" THEN
        IF Has(c, e.name)
        THEN Do(instantiate(Get(c, e.name), n), LAMBDA t, n1 : Ok(<< <<>>, t >>, n1))
        ELSE Fail(n)
    ELSE IF e.type = "cons" THEN
        IF e.value.type # "none" THEN
            Do(infer(e.value, c, n), LAMBDA r, n1 :
            Do(applyToType(r[1], r[2], n1), LAMBDA t, n2 :
            LET f == fresh(n2)
            IN  Ok(<<r[1], TRec(TRUE, TRUE, << <<e.name, t>> >>, f.id)>>, f.n)))
        ELSE
            LET f == fresh(n)
            IN  Ok(<< <<>>, TRec(TRUE, TRUE, << <<e.name, Unit>> >>, f.id) >>, f.n)
    ELSE IF e.type = "match" THEN
        LET fo  == fresh(n)
            out == fo.id
        IN  Do(infer(e.value, c, fo.n), LAMBDA r, n1 :
            Do(compose(r[1], <<>>, n1), LAMBDA s0, n2 :
            LET fp == fresh(n2)
                options == fp.id
            IN  Do(Then(unify(r[2], TRec(TRUE, TRUE, <<>>, options), fp.n), s0), LAMBDA sa, n3 :
                Do(apply(r[2], sa, n3), LAMBDA ta, n4 :
                LET ft == fresh(n4)
                IN  Do(inferCases(e.cases, c, sa, ft.id, out, ft.n), LAMBDA lp, n5 :
                    Do(Then(unify(ta, patternRow(e.otherwise, lp[2]), n5),
                            lp[1]), LAMBDA sb, n6 :
                    Do(apply(ta, sb, n6), LAMBDA tb, n7 :
                    Do(inferOtherwise(e.otherwise, c, sb, lp[3], n7), LAMBDA last, n8 :
                    Do(apply(lp[3], last, n8), LAMBDA t, n9 :
                    Ok(<<last, t>>, n9))))))))))
    ELSE IF e.type = "acc" THEN
        Do(infer(e.rec, c, n), LAMBDA r, n1 :
        LET fo == fresh(n1)
            fr == fresh(fo.n)
        IN  Do(unify(r[2], TRec(FALSE, TRUE, << <<e.prop, fo.id>> >>, fr.id), fr.n), LAMBDA s, n2 :
            Do(apply(fo.id, s, n2), LAMBDA t, n3 :
            Ok(<<s, t>>, n3))))
    ELSE IF e.type = "app" THEN
        LET fr == fresh(n)
            tResult == fr.id
        IN  Do(infer(e.fn, c, fr.n), LAMBDA r, n1 :
            Do(inferArgs(e.args, c, r[1], <<>>, n1), LAMBDA as, n2 :
            Do(apply(r[2], as[1], n2), LAMBDA tFn, n3 :
            Do(unify(tFn, Cons("Func", Append(as[2], tResult)), n3), LAMBDA uniSubst, n4 :
            Do(compose(uniSubst, as[1], n4), LAMBDA s, n5 :
            Do(apply(tResult, uniSubst, n5), LAMBDA t, n6 :
            Ok(<<s, t>>, n6)))))))
    ELSE
        Do(monoEach([j \in 1..Len(e.args) |-> e.args[j].name], <<>>, n), LAMBDA argTypes, n1 :
        Do(infer(e.body, Spread(c, argTypes), n1), LAMBDA r, n2 :
        Do(apply(Cons("Func", [j \in 1..Len(e.args) |-> Get(argTypes, e.args[j].name).type] \o <<r[2]>>),
                 r[1], n2), LAMBDA t, n3 :
        Ok(<<r[1], t>>, n3))))

inferScheme(e, env, n) ==
    Do(infer(e, env, n), LAMBDA r, n1 : Ok(generalize(r[2]), n1))

----------------------------------------------------------------------------
(* Values and the evaluator (src/unnamed/part_000: the revision of value.ts *)
(* that exports what std.ts and repl.ts import)                             *)
(*                                                                          *)
(*   - An array is a cell of the heap, a sequence of sequences of values,   *)
(*     and a list value holds the index of its cell: two uses of one list   *)
(*     share the cell, as two references to one JavaScript array do.        *)
(*     Records, tags and closures are never written after they are built    *)
(*     and are held by value.                                               *)
(*   - A function that can throw takes the heap h and returns [ok, v, n]:   *)
(*     ok = FALSE is a thrown error, n the heap when the call ended.        *)

VUnit == [vk |-> "null"]

\* a missing property, a missing argument, an index outside an array
Undefined == [vk |-> "undefined"]

NaN == [vk |-> "nan"]

VNum(x) == [vk |-> "num", num |-> x]

VStr(x) == [vk |-> "str", str |-> x]

VLst(addr) == [vk |-> "lst", addr |-> addr]

VRec(fields) == [vk |-> "rec", fields |-> fields]

tag(name, value) == [vk |-> "tag", name |-> name, value |-> value]

VClo(args, body, ctx) == [vk |-> "clo", args |-> args, body |-> body, ctx |-> ctx]

\* a function of the standard library
Native(name) == [vk |-> "native", name |-> name]

\* a task of the standard library: a function of its callback
TaskOf(name, args) == [vk |-> "task", name |-> name, args |-> args]

\* JavaScript's conversion to boolean: !!v
Truthy(v) ==
    IF v.vk \in {"null", "undefined", "nan"} THEN FALSE
    ELSE IF v.vk = "num" THEN v.num # 0
    ELSE IF v.vk = "str" THEN v.str # ""
    ELSE TRUE

isTag(v) == v.vk = "tag"

isRec(v) == v.vk = "rec"

\* the value of a literal of the syntax tree
litValue(value) == IF value[1] = "number" THEN VNum(value[2]) ELSE VStr(value[2])

\* rec[k]
Prop(fields, k) == IF Has(fields, k) THEN Get(fields, k) ELSE Undefined

\* the handler of a try block: it runs on the heap the throw left
Catch(r, K(_)) == IF r.ok THEN r ELSE K(r.n)

RECURSIVE formatValue(_, _)
\* formatValue, the walker of values: the text of a value, here the tree of its parts;
\* a value of no case of the walker throws, and a falsy payload of a tag is left out
formatValue(val, h) ==
    IF val.vk \in {"num", "nan", "null", "str", "clo", "native", "task"} THEN Ok(val, h)
    ELSE IF val.vk = "tag" THEN
        IF Truthy(val.value)
        THEN Do(formatValue(val.value, h), LAMBDA v, h1 : Ok(tag(val.name, v), h1))
        ELSE Ok(tag(val.name, Undefined), h)
    ELSE IF val.vk = "rec" THEN
        IF \A j \in 1..Len(val.fields) : formatValue(val.fields[j][2], h).ok
        THEN Ok(VRec([j \in 1..Len(val.fields) |->
                        <<val.fields[j][1], formatValue(val.fields[j][2], h).v>>]), h)
        ELSE Fail(h)
    ELSE IF val.vk = "lst" THEN
        IF \A j \in 1..Len(h[val.addr]) : formatValue(h[val.addr][j], h).ok
        THEN Ok([vk |-> "lst", items |-> [j \in 1..Len(h[val.addr]) |-> formatValue(h[val.addr][j], h).v]], h)
        ELSE Fail(h)
    ELSE Fail(h)

RECURSIVE match(_, _, _)
RECURSIVE matchAll(_, _, _, _)
\* match(ptn, value): the bindings of the pattern's names, or a throw
match(ptn, value, h) ==
    IF value = VUnit THEN Fail(h)
    ELSE IF ptn.type = "lit" THEN
        IF litValue(ptn.value) = value THEN Ok(<<>>, h) ELSE Fail(h)
    ELSE IF ptn.type = "id" THEN Ok(<< <<ptn.name, value>> >>, h)
    ELSE IF ptn.type = "patlist" THEN
        IF value.vk = "lst" /\ Len(h[value.addr]) = Len(ptn.values)
        THEN matchAll(ptn.values, h[value.addr], <<>>, h)
        ELSE Fail(h)
    ELSE IF ptn.type = "patrec" THEN
        IF isRec(value)
        THEN matchAll([j \in 1..Len(ptn.record) |-> ptn.record[j][2]],
                      [j \in 1..Len(ptn.record) |-> Prop(value.fields, ptn.record[j][1])], <<>>, h)
        ELSE Fail(h)
    ELSE Fail(h)

\* ptns.map((p, i) => match(p, values[i])), then Object.assign of each result in order
matchAll(ptns, values, out, h) ==
    IF ptns = <<>> THEN Ok(out, h)
    ELSE Do(match(ptns[1], values[1], h),
            LAMBDA s, h1 : matchAll(Tail(ptns), Tail(values), Spread(out, s), h1))

RECURSIVE evaluate(_, _, _)
RECURSIVE evaluateAll(_, _, _, _)
RECURSIVE evaluateCases(_, _, _, _, _)
RECURSIVE call(_, _, _)
RECURSIVE foldFrom(_, _, _, _, _)

\* values.map(val => val(ctx)): left to right
evaluateAll(es, ctx, acc, h) ==
    IF es = <<>> THEN Ok(acc, h)
    ELSE Do(evaluate(es[1], ctx, h),
            LAMBDA v, h1 : evaluateAll(Tail(es), ctx, Append(acc, v), h1))

\* index(x, y) of std.ts: the remainder by the length 0 is NaN, and x[NaN] is undefined
index(x, y, h) ==
    IF Len(h[x.addr]) = 0 THEN Undefined
    ELSE h[x.addr][(y.num % Len(h[x.addr])) + 1]

\* the loop of fold(list, op, seed) over the array that list.reverse() returned,
\* which is the array of list itself
foldFrom(addr, oper, acc, k, h) ==
    IF k > Len(h[addr]) THEN Ok(acc, h)
    ELSE Do(call(oper, <<h[addr][k], acc>>, h),
            LAMBDA v, h1 : foldFrom(addr, oper, v, k + 1, h1))

\* fold(list, op, seed) of std.ts: list.reverse() reverses the array of list in place
fold(list, oper, seed, h) ==
    IF list.vk # "lst" THEN Fail(h)
    ELSE foldFrom(list.addr, oper, seed, 1,
                  [h EXCEPT ![list.addr] =
                      [j \in 1..Len(h[list.addr]) |-> h[list.addr][Len(h[list.addr]) + 1 - j]]])

\* x + y of JavaScript on the numbers of the language
plus(x, y) == IF x.vk = "num" /\ y.vk = "num" THEN VNum(x.num + y.num) ELSE NaN

Arg(vals, j) == IF j <= Len(vals) THEN vals[j] ELSE Undefined

\* fn(...vals): a closure runs its body under its environment and its arguments,
\* a function of the standard library runs, anything else is not a function
call(fn, vals, h) ==
    IF fn.vk = "clo" THEN
        evaluate(fn.body,
                 Spread(fn.ctx, [j \in 1..Len(fn.args) |-> <<fn.args[j].name, Arg(vals, j)>>]), h)
    ELSE IF fn.vk = "native" THEN
        IF fn.name = "+" THEN Ok(plus(Arg(vals, 1), Arg(vals, 2)), h)
        ELSE IF fn.name = "@" THEN
            IF Arg(vals, 1).vk = "lst" THEN Ok(index(vals[1], Arg(vals, 2), h), h) ELSE Fail(h)
        ELSE IF fn.name = "fold" THEN fold(Arg(vals, 1), Arg(vals, 2), Arg(vals, 3), h)
        \* readFile(path), print(str) and bind(task, cont) return a task
        ELSE IF fn.name \in {"readFile", "print", "&>"} THEN Ok(TaskOf(fn.name, vals), h)
        ELSE Fail(h)
    ELSE Fail(h)

\* the loop over the cases of evaluate.match, and what follows it
evaluateCases(cases, val, otherwise, ctx, h) ==
    IF cases = <<>> THEN
        IF otherwise.type # "none" THEN evaluate(otherwise, ctx, h) ELSE Fail(h)
    ELSE IF cases[1][1].name = val.name /\ Truthy(val.value) = (cases[1][1].value.type # "none") THEN
        Catch(IF Truthy(val.value)
              THEN Do(match(cases[1][1].value, val.value, h),
                      LAMBDA subst, h1 : evaluate(cases[1][2], Spread(ctx, subst), h1))
              ELSE evaluate(cases[1][2], ctx, h),
              LAMBDA h1 : evaluateCases(Tail(cases), val, otherwise, ctx, h1))
    ELSE evaluateCases(Tail(cases), val, otherwise, ctx, h)

\* evaluate(e)(ctx)
evaluate(e, ctx, h) ==
    IF e.type = "lit" THEN Ok(litValue(e.value), h)
    ELSE IF e.type = "list" THEN
        Do(evaluateAll(e.values, ctx, <<>>, h),
           LAMBDA vs, h1 : Ok(VLst(Len(h1) + 1), Append(h1, vs)))
    ELSE IF e.type = "rec" THEN
        Do(evaluateAll([j \in 1..Len(e.record) |-> e.record[j][2]], ctx, <<>>, h),
           LAMBDA vs, h1 : Ok(VRec([j \in 1..Len(e.record) |-> <<e.record[j][1], vs[j]>>]), h1))
    ELSE IF e.type = "id" THEN
        IF Truthy(Prop(ctx, e.name)) THEN Ok(Get(ctx, e.name), h) ELSE Fail(h)
    ELSE IF e.type = "cons" THEN
        IF e.value.type = "none" THEN Ok(tag(e.name, Undefined), h)
        ELSE Do(evaluate(e.value, ctx, h), LAMBDA v, h1 : Ok(tag(e.name, v), h1))
    ELSE IF e.type = "match" THEN
        Do(evaluate(e.value, ctx, h),
           LAMBDA val, h1 : IF isTag(val) THEN evaluateCases(e.cases, val, e.otherwise, ctx, h1)
                            ELSE Fail(h1))
    ELSE IF e.type = "acc" THEN
        Do(evaluate(e.rec, ctx, h),
           LAMBDA val, h1 : IF isRec(val) THEN Ok(Prop(val.fields, e.prop), h1) ELSE Fail(h1))
    ELSE IF e.type = "app" THEN
        Do(evaluate(e.fn, ctx, h),
           LAMBDA f, h1 : Do(evaluateAll(e.args, ctx, <<>>, h1),
                             LAMBDA vs, h2 : call(f, vs, h2)))
    ELSE Ok(VClo(e.args, e.body, ctx), h)

----------------------------------------------------------------------------
(* Equality of types up to the names of variables and the order of keys *)

\* the keys of a row in one fixed order, whatever order the row lists them in
SortedKeys(S) == CHOOSE s \in [1..Cardinality(S) -> S] : Range(s) = S

RECURSIVE NamesOf(_)
\* every occurrence of a variable name (the tails of closed rows too)
NamesOf(t) ==
    IF t.kind = "cons" THEN ConcatAll([j \in 1..Len(t.args) |-> NamesOf(t.args[j])])
    ELSE IF t.kind = "id" THEN <<t.name>>
    ELSE LET ks == SortedKeys(KeySet(t.items))
         IN  ConcatAll([j \in 1..Len(ks) |-> NamesOf(Get(t.items, ks[j]))]) \o <<t.rest.name>>

RECURSIVE Shape(_, _, _)
\* t with items as an unordered map and every name >= from replaced by its rank in order
Shape(t, order, from) ==
    IF t.kind = "cons" THEN Cons(t.name, [j \in 1..Len(t.args) |-> Shape(t.args[j], order, from)])
    ELSE IF t.kind = "id" THEN
        IF t.name >= from THEN TId(1000 + (CHOOSE j \in 1..Len(order) : order[j] = t.name)) ELSE t
    ELSE TRec(t.union, t.open,
              [k \in KeySet(t.items) |-> Shape(Get(t.items, k), order, from)],
              Shape(t.rest, order, from))

Canon(t, from) == Shape(t, Dedup(NamesOf(t), <<>>), from)

\* equal up to a one-to-one renaming of the variables named >= from
AlphaEq(u, v, from) == Canon(u, from) = Canon(v, from)

AllNames == 0 - 1000

----------------------------------------------------------------------------
(* Inputs *)

\* user-written variables a, b, ... that occur as items and arguments
ItemVars == {TId(0 - k) : k \in 1..NVars}

\* user-written row variables r1, r2
Tail1 == TId(0 - 11)

Tail2 == TId(0 - 12)

Atoms == ItemVars \cup {Num, Str}

FewAtoms == {TId(0 - 1), Num}

RowKeys == {"x", "y"}

ItemSeqs(atoms) ==
    UNION { {s \in [1..len -> RowKeys \X atoms] :
                \A j, k \in 1..len : j # k => s[j][1] # s[k][1]} : len \in 0..MaxItems }

Rows(atoms, tails) ==
    {TRec(u, o, it, r) : u \in BOOLEAN, o \in BOOLEAN, it \in ItemSeqs(atoms), r \in tails}

ConsTypes ==
    {List(x) : x \in Atoms} \cup {Lam(<<x, y>>) : x, y \in Atoms}
        \cup {Lam(<<TId(0 - 1), TId(0 - 1), Num>>)}

LeftTypes == Rows(FewAtoms, {Tail1}) \cup Atoms \cup {Tail1, Tail2} \cup ConsTypes

RightTypes == Rows(Atoms, {Tail1, Tail2}) \cup Atoms \cup {Tail1, Tail2} \cup ConsTypes

----------------------------------------------------------------------------
(* State machine: the module's counter and the calls made on the drawn inputs *)

Counter0 == [i |-> i, log |-> <<>>]

\* the calls on the type algebra leave their inputs and the interpreter's state alone
Frame ==
    UNCHANGED <<t1, t2, s1, s2, ex, typeContext, valueContext, heap, line, console, pending, trace>>

\* no command has been read: the interpreter's environment, arrays and output are empty
NoRepl ==
    /\ valueContext = <<>>
    /\ heap = <<>>
    /\ line = [type |-> "nothing"]
    /\ console = "none"
    /\ pending = <<>>
    /\ trace = <<>>

Record(name, r) ==
    /\ op' = name
    /\ res' = [ok |-> r.ok, v |-> r.v, n |-> r.n, i0 |-> i]
    /\ i' = r.n.i
    /\ issued' = issued \cup Range(r.n.log)
    /\ calls' = calls + Len(r.n.log)
    /\ steps' = steps + 1

InitUnify ==
    /\ i = InitialCounter
    /\ issued = {}
    /\ calls = 0
    /\ steps = 0
    /\ t1 \in LeftTypes
    /\ t2 \in RightTypes
    /\ s1 = <<>>
    /\ s2 = <<>>
    /\ ex = None
    /\ typeContext = <<>>
    /\ op = "none"
    /\ res = [ok |-> TRUE, v |-> <<>>, n |-> [i |-> InitialCounter, log |-> <<>>], i0 |-> InitialCounter]
    /\ NoRepl

\* unify(t1, t2)
Unify ==
    /\ steps < MaxSteps
    /\ Record("unify", unify(t1, t2, Counter0))
    /\ Frame

\* unify(t2, t1)
UnifyFlipped ==
    /\ steps < MaxSteps
    /\ Record("unifyFlipped", unify(t2, t1, Counter0))
    /\ Frame

NextUnify == Unify \/ UnifyFlipped

SpecUnify == InitUnify /\ [][NextUnify]_vars

\* bindings x |-> t with x not in t
Bindings ==
    LET ks == {0 - 1, 0 - 2, 0 - 11}
        vs == {Num, Str, TId(0 - 1), TId(0 - 2), List(TId(0 - 2)),
               TRec(FALSE, TRUE, << <<"y", Num>> >>, Tail2),
               TRec(FALSE, FALSE, << <<"y", TId(0 - 2)>> >>, Tail2)}
    IN  {p \in ks \X vs : p[1] \notin Range(NamesOf(p[2]))}

Substs(max) ==
    UNION { {s \in [1..len -> Bindings] :
                \A j, k \in 1..len : j # k => s[j][1] # s[k][1]} : len \in 0..max }

SubstTypes ==
    {TId(0 - 1), TId(0 - 2), List(TId(0 - 1)), Lam(<<TId(0 - 1), TId(0 - 2)>>),
     TRec(FALSE, TRUE, << <<"x", TId(0 - 1)>> >>, Tail1),
     TRec(FALSE, FALSE, << <<"x", TId(0 - 1)>>, <<"y", TId(0 - 2)>> >>, Tail1),
     TRec(FALSE, TRUE, <<>>, Tail1)}

InitSubst ==
    /\ i = InitialCounter
    /\ issued = {}
    /\ calls = 0
    /\ steps = 0
    /\ t1 \in SubstTypes
    /\ t2 = Num
    /\ s1 \in Substs(MaxBindings)
    /\ s2 \in Substs(1)
    /\ ex = None
    /\ typeContext = <<>>
    /\ op = "none"
    /\ res = [ok |-> TRUE, v |-> <<>>, n |-> [i |-> InitialCounter, log |-> <<>>], i0 |-> InitialCounter]
    /\ NoRepl

\* compose(s1, s2)
Compose ==
    /\ steps < MaxSteps
    /\ Record("compose", compose(s1, s2, Counter0))
    /\ Frame

\* apply(t1)(compose(s1, s2))
ComposeApply ==
    /\ steps < MaxSteps
    /\ LET c == compose(s1, s2, Counter0)
       IN  Record("composeApply", IF c.ok THEN apply(t1, c.v, c.n) ELSE Fail(c.n))
    /\ Frame

\* apply(apply(t1)(s2))(s1)
ApplyApply ==
    /\ steps < MaxSteps
    /\ LET x == apply(t1, s2, Counter0)
       IN  Record("applyApply", IF x.ok THEN apply(x.v, s1, x.n) ELSE Fail(x.n))
    /\ Frame

\* apply(t1)(s1)
ApplyOne ==
    /\ steps < MaxSteps
    /\ Record("apply", apply(t1, s1, Counter0))
    /\ Frame

NextSubst == Compose \/ ComposeApply \/ ApplyApply \/ ApplyOne

SpecSubst == InitSubst /\ [][NextSubst]_vars

SchemeTypes ==
    LeftTypes \cup RightTypes
        \cup {TRec(FALSE, FALSE, << <<"x", Tail1>> >>, Tail1),
              List(TRec(TRUE, TRUE, << <<"x", TId(0 - 1)>> >>, Tail1)),
              Lam(<<TRec(FALSE, TRUE, << <<"x", TId(0 - 1)>> >>, Tail1), TId(0 - 1)>>),
              Lam(<<TRec(FALSE, FALSE, << <<"x", TId(0 - 1)>> >>, Tail1), Tail2>>)}

InitScheme ==
    /\ i = InitialCounter
    /\ issued = {}
    /\ calls = 0
    /\ steps = 0
    /\ t1 \in SchemeTypes
    /\ t2 = Num
    /\ s1 = <<>>
    /\ s2 = <<>>
    /\ ex = None
    /\ typeContext = <<>>
    /\ op = "none"
    /\ res = [ok |-> TRUE, v |-> <<>>, n |-> [i |-> InitialCounter, log |-> <<>>], i0 |-> InitialCounter]
    /\ NoRepl

\* generalize(t1)
Generalize ==
    /\ steps < MaxSteps
    /\ Record("generalize", Ok(generalize(t1), Counter0))
    /\ Frame

\* instantiate(generalize(t1))
Instantiate ==
    /\ steps < MaxSteps
    /\ Record("instantiate", instantiate(generalize(t1), Counter0))
    /\ Frame

NextScheme == Generalize \/ Instantiate

SpecScheme == InitScheme /\ [][NextScheme]_vars

\* constructor types over the variables a, b, c and Num
GenNames == {0 - k : k \in 1..(NVars + 1)}

GenAtoms == {TId(nm) : nm \in GenNames} \cup {Num}

GenTypes == GenAtoms \cup {Lam(<<x, y>>) : x, y \in GenAtoms}

\* the substitution that binds each of names to what f gives it, unless f gives the
\* name itself
SubstOf(f, names) ==
    SelectSeq([j \in 1..Len(names) |-> <<names[j], f[names[j]]>>], LAMBDA p : p[2] # TId(p[1]))

\* every substitution of atoms for a, b, c: idempotent or not
OtherSubsts == {SubstOf(f, [k \in 1..(NVars + 1) |-> 0 - k]) : f \in [GenNames -> GenAtoms]}

InitGeneral ==
    /\ i = InitialCounter
    /\ issued = {}
    /\ calls = 0
    /\ steps = 0
    /\ t1 \in GenTypes
    /\ t2 \in GenTypes
    /\ s1 \in OtherSubsts
    /\ s2 = <<>>
    /\ ex = None
    /\ typeContext = <<>>
    /\ op = "none"
    /\ res = [ok |-> TRUE, v |-> <<>>, n |-> [i |-> InitialCounter, log |-> <<>>], i0 |-> InitialCounter]
    /\ NoRepl

\* unify(t1, t2)
UnifyGeneral ==
    /\ steps < MaxSteps
    /\ Record("unify", unify(t1, t2, Counter0))
    /\ Frame

\* apply(t1)(s1), apply(t2)(s1)
ApplyOther ==
    /\ steps < MaxSteps
    /\ Record("applyOther",
              Do(apply(t1, s1, Counter0), LAMBDA x, n1 :
              Do(apply(t2, s1, n1), LAMBDA y, n2 : Ok(<<x, y>>, n2))))
    /\ Frame

NextGeneral == UnifyGeneral \/ ApplyOther

SpecGeneral == InitGeneral /\ [][NextGeneral]_vars

One == ELit(<<"number", 1>>)

Tags == {"A", "B"}

\* patterns Tag and Tag(x)
Patterns == {PatCons(tg, v) : tg \in Tags, v \in {None, EId("x")}}

CaseSeqs ==
    UNION { {cs \in [1..len -> Patterns \X {One}] :
                \A j, k \in 1..len : j # k => cs[j][1].name # cs[k][1].name} : len \in 1..MaxCases }

\* the scrutinee is a tag or the variable v
Scrutinees == {ECons(tg, None) : tg \in Tags} \cup {EId("v")}

Matches == {EMatch(sc, cs, ow) : sc \in Scrutinees, cs \in CaseSeqs, ow \in {None, One}}

OtherExprs ==
    {One, EId("v"), EId("id"), EId("w"),
     ERec(<< <<"a", One>>, <<"b", EId("v")>> >>),
     EList(<<One, EId("v")>>),
     EList(<<ELam(<<EId("x")>>, EAcc(EId("x"), "bar")), ELam(<<EId("x")>>, EAcc(EId("x"), "foo"))>>),
     EApp(EId("id"), <<One>>),
     EApp(EId("+"), <<One, EId("v")>>),
     ELam(<<EId("x"), EId("y")>>, EApp(EId("+"), <<EId("x"), EId("y")>>)),
     ELam(<<EId("x")>>, EMatch(EId("x"), << <<PatCons("A", EId("y")), EId("y")>> >>, None))}

\* when Hot(Very) is Hot(x) -> x
HotVery == EMatch(ECons("Hot", ECons("Very", None)), << <<PatCons("Hot", EId("x")), EId("x")>> >>, None)

\* when v is Ok(x) -> x else Err, v a monomorphic variable of the environment
OkElseErr == EMatch(EId("v"), << <<PatCons("Ok", EId("x")), EId("x")>> >>, ECons("Err", None))

\* \\x -> {hello: add(getHello(x), getBar(x)), baz: getBaz(x)}
HelloBarBaz ==
    ELam(<<EId("x")>>,
         ERec(<< <<"hello", EApp(EId("add"), <<EApp(EId("getHello"), <<EId("x")>>),
                                               EApp(EId("getBar"), <<EId("x")>>)>>)>>,
                 <<"baz", EApp(EId("getBaz"), <<EId("x")>>)>> >>))

\* [\\x -> x.bar, \\x -> x.foo]
AccessorList ==
    EList(<<ELam(<<EId("x")>>, EAcc(EId("x"), "bar")), ELam(<<EId("x")>>, EAcc(EId("x"), "foo"))>>)

StrA == ELit(<<"string", "a">>)

\* \\x -> {a: x + 1, b: x ^ 'a'}
NumAndStr ==
    ELam(<<EId("x")>>, ERec(<< <<"a", EApp(EId("+"), <<EId("x"), One>>)>>,
                               <<"b", EApp(EId("^"), <<EId("x"), StrA>>)>> >>))

\* \\f -> [f(1), f('a')]
OnNumAndStr == ELam(<<EId("f")>>, EList(<<EApp(EId("f"), <<One>>), EApp(EId("f"), <<StrA>>)>>))

\* {a: id, b: id}
IdTwice == ERec(<< <<"a", EId("id")>>, <<"b", EId("id")>> >>)

\* {a: id(1), b: id('a')}
IdAtTwoTypes ==
    ERec(<< <<"a", EApp(EId("id"), <<One>>)>>, <<"b", EApp(EId("id"), <<StrA>>)>> >>)

\* v.a.b
AccOfAcc == EAcc(EAcc(EId("v"), "a"), "b")

Hello == ELit(<<"string", "hello">>)

Three == ELit(<<"number", 3>>)

\* [1, 'hello', 3] and the lists that have its mismatch at the other positions
MixedLists ==
    {EList(<<One, Hello, Three>>), EList(<<Hello, One, Three>>), EList(<<One, Three, Hello>>),
     EList(<<EId("v"), One, Hello>>)}

\* [{x: v, y: v}, {x: 1, y: 'a'}]
RecordList ==
    EList(<<ERec(<< <<"x", EId("v")>>, <<"y", EId("v")>> >>),
            ERec(<< <<"x", One>>, <<"y", StrA>> >>)>>)

\* lists of literals, of the variable v and of records of these
PlainLists ==
    MixedLists \cup {RecordList, EList(<<One, EId("v")>>), EList(<<One, Three>>),
                     EList(<<ERec(<< <<"x", EId("v")>> >>), ERec(<< <<"x", One>> >>)>>)}

\* when v is A(p) -> rhs
WhenA(ptn, rhs) == EMatch(EId("v"), << <<PatCons("A", ptn), rhs>> >>, None)

\* matches whose right-hand side is a name their pattern binds: A(x) -> x,
\* A({a: x}) -> x, A({a: x, b: y}) -> y, A([x, y]) -> y, A({a: xs}) -> xs,
\* A({a: [x]}) -> x
PatternMatches ==
    {WhenA(EId("x"), EId("x")),
     WhenA(PatRec(<< <<"a", EId("x")>> >>), EId("x")),
     WhenA(PatRec(<< <<"a", EId("x")>>, <<"b", EId("y")>> >>), EId("y")),
     WhenA(PatList(<<EId("x"), EId("y")>>), EId("y")),
     WhenA(PatRec(<< <<"a", EId("xs")>> >>), EId("xs")),
     WhenA(PatRec(<< <<"a", PatList(<<EId("x")>>)>> >>), EId("x"))}

Scenarios ==
    PatternMatches \cup
    {HotVery, OkElseErr, HelloBarBaz, AccessorList, NumAndStr, OnNumAndStr,
     EId("getBar"), IdTwice, IdAtTwoTypes, EAcc(EId("v"), "a"), AccOfAcc} \cup PlainLists

\* v is a lambda-bound (monomorphic) variable; id, + and ^ come from the top level;
\* add, getHello, getBar (polymorphic in the field's type) and getBaz are accessors
\* over open records
Env0 ==
    << <<"v", Scheme(<<>>, TId(0 - 1))>>,
       <<"id", Scheme(<<0 - 2>>, Lam(<<TId(0 - 2), TId(0 - 2)>>))>>,
       <<"+", Scheme(<<>>, Lam(<<Num, Num, Num>>))>>,
       <<"^", Scheme(<<>>, Lam(<<Str, Str, Str>>))>>,
       <<"add", Scheme(<<>>, Lam(<<Num, Num, Num>>))>>,
       <<"getHello", Scheme(<<>>, Lam(<<TRec(FALSE, TRUE, << <<"hello", Num>> >>, TId(0 - 31)), Num>>))>>,
       <<"getBar", Scheme(<<0 - 4>>,
                          Lam(<<TRec(FALSE, TRUE, << <<"bar", TId(0 - 4)>> >>, TId(0 - 32)), TId(0 - 4)>>))>>,
       <<"getBaz", Scheme(<<>>, Lam(<<TRec(FALSE, TRUE, << <<"baz", Str>> >>, TId(0 - 33)), Str>>))>> >>

InitInfer ==
    /\ i = InitialCounter
    /\ issued = {}
    /\ calls = 0
    /\ steps = 0
    /\ t1 \in {TId(0 - 1), TRec(TRUE, TRUE, << <<"A", TId(0 - 1)>> >>, Tail1)}
    /\ t2 \in {TRec(TRUE, TRUE, << <<"B", Num>> >>, Tail2), TRec(TRUE, FALSE, << <<"A", Num>> >>, Tail2)}
    /\ s1 = << <<0 - 11, TRec(TRUE, TRUE, << <<"B", Num>> >>, Tail2)>> >>
    /\ s2 = <<>>
    /\ ex \in Matches \cup OtherExprs \cup Scenarios
    /\ typeContext = Env0
    /\ op = "none"
    /\ res = [ok |-> TRUE, v |-> <<>>, n |-> [i |-> InitialCounter, log |-> <<>>], i0 |-> InitialCounter]
    /\ NoRepl

\* infer(ex)(typeContext)
Infer ==
    /\ steps < MaxOps
    /\ Record("infer", infer(ex, typeContext, Counter0))
    /\ Frame

\* fresh()
Fresh ==
    /\ steps < MaxOps
    /\ LET f == fresh(Counter0) IN Record("fresh", Ok(f.id, f.n))
    /\ Frame

\* apply(t1)(s1)
Apply ==
    /\ steps < MaxOps
    /\ Record("apply", apply(t1, s1, Counter0))
    /\ Frame

\* unify(t1, t2)
UnifyRows ==
    /\ steps < MaxOps
    /\ Record("unify", unify(t1, t2, Counter0))
    /\ Frame

\* instantiate(generalize(t2))
InstantiateRow ==
    /\ steps < MaxOps
    /\ Record("instantiate", instantiate(generalize(t2), Counter0))
    /\ Frame

NextInfer == Infer \/ Fresh \/ Apply \/ UnifyRows \/ InstantiateRow

SpecInfer == InitInfer /\ [][NextInfer]_vars

----------------------------------------------------------------------------
(* State machine: evaluate on drawn programs *)

\* the functions of std.ts the programs call
StdValues ==
    << <<"+", Native("+")>>, <<"@", Native("@")>>, <<"fold", Native("fold")>>,
       <<"readFile", Native("readFile")>>, <<"print", Native("print")>>, <<"&>", Native("&>")>> >>

Zero == ELit(<<"number", 0>>)

\* when <tag> is <case>; <case> else 0, over tags with and without a payload; nope
\* is bound nowhere, and a number is not a function
WhenPrograms ==
    LET WhenScrutinees ==
            {ECons("A", None), ECons("A", One), ECons("A", Zero), ECons("B", One),
             ECons("A", ERec(<< <<"a", One>> >>)), ECons("A", ECons("B", None))}
        WhenPatterns ==
            {PatCons("A", None), PatCons("A", EId("x")), PatCons("A", One),
             PatCons("A", PatRec(<< <<"a", EId("x")>> >>)), PatCons("B", EId("x"))}
        WhenResults == {Three, EId("x"), EId("nope"), EApp(Three, <<>>)}
        WhenCases == UNION {[1..len -> WhenPatterns \X WhenResults] : len \in 1..MaxCases}
    IN  {EMatch(sc, cs, ow) : sc \in WhenScrutinees, cs \in WhenCases, ow \in {None, Zero}}

InitEval ==
    /\ i = InitialCounter
    /\ issued = {}
    /\ calls = 0
    /\ steps = 0
    /\ t1 = Num
    /\ t2 = Num
    /\ s1 = <<>>
    /\ s2 = <<>>
    /\ ex \in WhenPrograms
    /\ typeContext = <<>>
    /\ valueContext = StdValues
    /\ heap = <<>>
    /\ line = [type |-> "nothing"]
    /\ console = "none"
    /\ pending = <<>>
    /\ trace = <<>>
    /\ op = "none"
    /\ res = [ok |-> TRUE, v |-> VUnit, n |-> <<>>]

\* evaluate(ex)(valueContext)
Evaluate ==
    /\ steps < MaxSteps
    /\ op' = "evaluate"
    /\ res' = evaluate(ex, valueContext, heap)
    /\ heap' = res'.n
    /\ steps' = steps + 1
    /\ UNCHANGED <<i, issued, calls, t1, t2, s1, s2, ex, typeContext, valueContext, line, console,
                   pending, trace>>

\* match(ptn, value) on the pattern of the first case and the payload of the scrutinee
MatchFirst ==
    /\ steps < MaxSteps
    /\ ex.value.value.type # "none"
    /\ ex.cases[1][1].value.type # "none"
    /\ op' = "match"
    /\ res' = Do(evaluate(ex.value.value, valueContext, heap),
                 LAMBDA v, h1 : match(ex.cases[1][1].value, v, h1))
    /\ heap' = res'.n
    /\ steps' = steps + 1
    /\ UNCHANGED <<i, issued, calls, t1, t2, s1, s2, ex, typeContext, valueContext, line, console,
                   pending, trace>>

NextEval == Evaluate \/ MatchFirst

SpecEval == InitEval /\ [][NextEval]_vars

----------------------------------------------------------------------------
(* State machine: the loop of the REPL (src/src/repl.ts, lines 94-160) *)

\* mapValues(std, x => generalize(x[1])), for the functions of StdValues; t and k
\* of std.ts are the names fresh() gave when std.ts was loaded, Void is of type.ts
StdTypes ==
    LET Void == TRec(TRUE, FALSE, <<>>, TId(1))
        StdT == TId(InitialCounter)
        StdK == TId(InitialCounter + 1)
    IN  << <<"+", generalize(Lam(<<Num, Num, Num>>))>>,
           <<"@", generalize(Lam(<<List(StdT), Num, StdT>>))>>,
           <<"fold", generalize(Lam(<<List(StdT), Lam(<<StdT, StdT, StdK>>), StdT, List(StdK)>>))>>,
           <<"readFile", generalize(Lam(<<Str, Cons("Task", <<Str, Void>>)>>))>> >>

\* the state a command works on: both environments, the arrays, the counter
ReplState == [tc |-> typeContext, vc |-> valueContext, h |-> heap, c |-> Counter0]

\* a call on the type algebra moves the counter, a call of the evaluator the arrays
OnCounter(r, st) == [ok |-> r.ok, v |-> r.v, n |-> [st EXCEPT !.c = r.n]]

OnHeap(r, st) == [ok |-> r.ok, v |-> r.v, n |-> [st EXCEPT !.h = r.n]]

\* lines 109-112: under !run a task is run to its completion, which the file system
\* decides; runTask resolves with `val.value || {}` and rejects on any other tag
runIfTask(cmd, scheme, value, completion, st) ==
    IF cmd.run /\ scheme.type.kind = "cons" /\ scheme.type.name = "Task" THEN
        IF completion.name = "Ok"
        THEN Ok(<<[scheme EXCEPT !.type = scheme.type.args[1]],
                  IF Truthy(completion.value) THEN completion.value ELSE VRec(<<>>)>>, st)
        ELSE Fail(st)
    ELSE Ok(<<scheme, value>>, st)

\* lines 113-121: the name of an assignment is bound in both environments
bindName(cmd, scheme, value, st) ==
    IF cmd.type # "assignment" THEN Ok(value, st)
    ELSE IF Has(st.tc, cmd.id) THEN
        Do(OnCounter(unify(Get(st.tc, cmd.id).type, scheme.type, st.c), st), LAMBDA subst, st1 :
        Do(OnCounter(applyToType(subst, scheme.type, st1.c), st1), LAMBDA t, st2 :
        Ok(value, [st2 EXCEPT !.tc = Put(st2.tc, cmd.id, generalize(t)),
                              !.vc = Put(st2.vc, cmd.id, value)])))
    ELSE Ok(value, [st EXCEPT !.tc = Put(st.tc, cmd.id, scheme), !.vc = Put(st.vc, cmd.id, value)])

\* lines 104-124: an assignment or an expression
assignOrEvaluate(cmd, completion, st) ==
    Do(OnCounter(inferScheme(cmd.expr, st.tc, st.c), st), LAMBDA scheme, st1 :
    Do(OnHeap(evaluate(cmd.expr, st1.vc, st1.h), st1), LAMBDA value, st2 :
    Do(runIfTask(cmd, scheme, value, completion, st2), LAMBDA sv, st3 :
    Do(bindName(cmd, sv[1], sv[2], st3), LAMBDA v, st4 :
    IF v = VUnit THEN Ok(v, st4)
    ELSE Do(OnHeap(formatValue(v, st4.h), st4), LAMBDA text, st5 : Ok(v, st5))))))

\* lines 126-132: a declaration `name : type`
declare(cmd, st) ==
    IF Has(st.tc, cmd.id) THEN
        Do(OnCounter(instantiate(Get(st.tc, cmd.id), st.c), st), LAMBDA known, st1 :
        Do(OnCounter(unify(known, cmd.expr, st1.c), st1), LAMBDA subst, st2 :
        Do(OnCounter(applyToType(subst, cmd.expr, st2.c), st2), LAMBDA t, st3 :
        Ok(VUnit, [st3 EXCEPT !.tc = Put(st3.tc, cmd.id, generalize(t))]))))
    ELSE Ok(VUnit, [st EXCEPT !.tc = Put(st.tc, cmd.id, generalize(cmd.expr))])

\* lines 144-153 with commands.type (lines 74-77); no other command of the table is
\* drawn, and a name outside the table throws
meta(cmd, st) ==
    IF cmd.name = "type"
    THEN Do(OnCounter(infer(cmd.expr, st.tc, st.c), st), LAMBDA r, st1 : Ok(VUnit, st1))
    ELSE Fail(st)

\* the body of the loop, from parse(command, text) to the end of the try block; a
\* text that is no command makes parse throw
process(cmd, completion, st) ==
    IF cmd.type = "unparsed" THEN Fail(st)
    ELSE IF cmd.type \in {"assignment", "evaluate"} THEN assignOrEvaluate(cmd, completion, st)
    ELSE IF cmd.type = "decleration" THEN declare(cmd, st)
    ELSE IF cmd.type = "meta" THEN meta(cmd, st)
    ELSE Ok(VUnit, st)

\* the lines typed at the prompt: nothing, a text that is no command, !type x,
\* !bogus, x : Str, x = 0, x = 1, x = '', x = [] @ 0, xs = [1, 3],
\* !run s = readFile('a'), x, xs, fold(xs, \(a, acc) -> a, 0),
\* fold(xs, \(a, acc) -> x, 0), !run readFile('a'), readFile('a')
Lines ==
    LET Assignment(n, e, run) == [type |-> "assignment", id |-> n, expr |-> e, run |-> run]
        EvaluateOf(e, run) == [type |-> "evaluate", expr |-> e, run |-> run]
        FoldXs(body) ==
            EApp(EId("fold"), <<EId("xs"), ELam(<<EId("a"), EId("acc")>>, body), Zero>>)
        ReadF == EApp(EId("readFile"), <<StrA>>)
    IN  {[type |-> "nothing"], [type |-> "unparsed"],
         [type |-> "meta", name |-> "type", expr |-> EId("x")],
         [type |-> "meta", name |-> "bogus", expr |-> None],
         [type |-> "decleration", id |-> "x", expr |-> Str],
         Assignment("x", Zero, FALSE), Assignment("x", One, FALSE),
         Assignment("x", ELit(<<"string", "">>), FALSE),
         Assignment("x", EApp(EId("@"), <<EList(<<>>), Zero>>), FALSE),
         Assignment("xs", EList(<<One, Three>>), FALSE),
         Assignment("s", ReadF, TRUE),
         EvaluateOf(EId("x"), FALSE), EvaluateOf(EId("xs"), FALSE),
         EvaluateOf(FoldXs(EId("a")), FALSE), EvaluateOf(FoldXs(EId("x")), FALSE),
         EvaluateOf(ReadF, TRUE), EvaluateOf(ReadF, FALSE)}

\* what the file system answers to readFile
Completions == {tag("Ok", VStr("text")), tag("Ok", VStr("")), tag("Err", VStr("ENOENT"))}

InitRepl ==
    \* std.ts took t, k, e and the tail of Bool from the counter
    /\ i = InitialCounter + 4
    /\ issued = {}
    /\ calls = 0
    /\ steps = 0
    /\ t1 = Num
    /\ t2 = Num
    /\ s1 = <<>>
    /\ s2 = <<>>
    /\ ex = None
    /\ typeContext = StdTypes
    /\ valueContext = StdValues
    /\ heap = <<>>
    /\ line = [type |-> "nothing"]
    /\ console = "none"
    /\ pending = <<>>
    /\ trace = <<>>
    /\ op = "none"
    /\ res = [ok |-> TRUE, v |-> VUnit, n |-> <<>>]

\* the state after the command: what the try block changed before it ended or threw
Commit(cmd, r) ==
    /\ line' = cmd
    /\ op' = "repl"
    /\ res' = [ok |-> r.ok, v |-> r.v, n |-> <<>>]
    /\ console' = IF r.ok THEN "ok" ELSE "error"
    /\ typeContext' = r.n.tc
    /\ valueContext' = r.n.vc
    /\ heap' = r.n.h
    /\ i' = r.n.c.i
    /\ issued' = issued \cup Range(r.n.c.log)
    /\ calls' = calls + Len(r.n.c.log)
    /\ steps' = steps + 1
    /\ UNCHANGED <<t1, t2, s1, s2, ex, pending, trace>>

\* one turn of the loop: a line is read and processed, an error is printed
ReadLine ==
    /\ steps < MaxLines
    /\ \E cmd \in Lines :
        \E completion \in (IF cmd.type \in {"assignment", "evaluate"} /\ cmd.run
                           THEN Completions ELSE {tag("Ok", VUnit)}) :
            Commit(cmd, process(cmd, completion, ReplState))

SpecRepl == InitRepl /\ [][ReadLine]_vars

----------------------------------------------------------------------------
(* State machine: tasks of std.ts run to completion *)
(*                                                                          *)
(* A task is a function of its callback. pending holds the reads handed to  *)
(* the file system with the callback each will call; trace lists, in order, *)
(* every call of a callback and every call of a continuation.               *)

\* the callback runTask passes to its task (std.ts, lines 75-83)
Settle == [k |-> "runTask"]

\* the callback bind passes to its task (std.ts, lines 56-65)
Bound(cont, cb) == [k |-> "bind", cont |-> cont, cb |-> cb]

Called(cb, val) == [ev |-> "call", cb |-> cb, val |-> val]

Continued(cb, val) == [ev |-> "cont", cb |-> cb, val |-> val]

Logged(event, st) == [st EXCEPT !.trace = Append(@, event)]

\* val.value || {}
OrEmpty(v) == IF Truthy(v) THEN v ELSE VRec(<<>>)

RECURSIVE runCallback(_, _, _)
RECURSIVE runCallbackAlways(_, _, _)
RECURSIVE task(_, _, _)

\* a variant of bind's callback that calls cont whatever the tag
runCallbackAlways(cb, val, st) ==
    IF cb.k = "runTask" THEN Ok(VUnit, Logged(Called(cb, val), st))
    ELSE Do(OnHeap(call(cb.cont, <<OrEmpty(val.value)>>, st.h),
                   Logged(Continued(cb, OrEmpty(val.value)), Logged(Called(cb, val), st))),
            LAMBDA t, st1 : IF t.vk = "task" THEN task(t, cb.cb, st1) ELSE Fail(st1))

\* cb(val): the callback of runTask settles the promise; the callback of bind calls
\* cont on Ok and runs the task it returns with bind's own callback, and passes any
\* other tag on
runCallback(cb, val, st) ==
    IF cb.k = "runTask" THEN Ok(VUnit, Logged(Called(cb, val), st))
    ELSE IF val.name = "Ok" THEN
        Do(OnHeap(call(cb.cont, <<OrEmpty(val.value)>>, st.h),
                  Logged(Continued(cb, OrEmpty(val.value)), Logged(Called(cb, val), st))),
           LAMBDA t, st1 : IF t.vk = "task" THEN task(t, cb.cb, st1) ELSE Fail(st1))
    ELSE runCallback(cb.cb, val, Logged(Called(cb, val), st))

\* task(cb): readFile hands the read to the file system, which throws at once when
\* the path is no string; print calls back at once; a bound task runs its first
\* task with bind's callback
task(t, cb, st) ==
    IF t.name = "readFile" /\ t.args[1].vk # "str" THEN Fail(st)
    ELSE IF t.name = "readFile" THEN Ok(VUnit, [st EXCEPT !.pending = Append(@, [path |-> t.args[1], cb |-> cb])])
    ELSE IF t.name = "print" THEN runCallback(cb, tag("Ok", VUnit), st)
    ELSE task(t.args[1], Bound(t.args[2], cb), st)

\* first &> \v -> next, over reads and prints, with a bound task on either side
TaskPrograms ==
    LET Firsts == {EApp(EId("readFile"), <<StrA>>), EApp(EId("readFile"), <<Hello>>),
                   EApp(EId("print"), <<StrA>>)}
        Conts == {ELam(<<EId("v")>>, EApp(EId("readFile"), <<EId("v")>>)),
                  ELam(<<EId("v")>>, EApp(EId("print"), <<StrA>>))}
        Then1 == {EApp(EId("&>"), <<f, c>>) : f \in Firsts, c \in Conts}
    IN  Then1 \cup {EApp(EId("&>"), <<f, c>>) : f \in Then1, c \in Conts}
              \cup {EApp(EId("&>"), <<f, ELam(<<EId("w")>>, g)>>) : f \in Firsts, g \in Then1}

InitTask ==
    /\ i = InitialCounter
    /\ issued = {}
    /\ calls = 0
    /\ steps = 0
    /\ t1 = Num
    /\ t2 = Num
    /\ s1 = <<>>
    /\ s2 = <<>>
    /\ ex \in TaskPrograms
    /\ typeContext = <<>>
    /\ valueContext = StdValues
    /\ heap = <<>>
    /\ line = [type |-> "nothing"]
    /\ console = "none"
    /\ pending = <<>>
    /\ trace = <<>>
    /\ op = "none"
    /\ res = [ok |-> TRUE, v |-> VUnit, n |-> <<>>]

\* what a call left: the reads in flight, the calls made, the arrays
Settled(name, r) ==
    /\ op' = name
    /\ res' = [ok |-> r.ok, v |-> r.v, n |-> <<>>]
    /\ pending' = r.n.pending
    /\ trace' = r.n.trace
    /\ heap' = r.n.h
    /\ UNCHANGED <<i, issued, calls, t1, t2, s1, s2, ex, typeContext, valueContext, line, console>>

\* runTask(evaluate(ex)(valueContext))
RunTask ==
    /\ steps = 0
    /\ steps' = 1
    /\ Settled("runTask",
               Do(OnHeap(evaluate(ex, valueContext, heap), [pending |-> pending, trace |-> trace, h |-> heap]),
                  LAMBDA t, st : task(t, Settle, st)))

\* the file system ends a read and calls its callback (std.ts, lines 22-28)
ReadCompletes ==
    /\ steps' = steps
    /\ \E j \in 1..Len(pending), completion \in Completions :
        Settled("readFile",
                runCallback(pending[j].cb, completion,
                            [pending |-> SubSeq(pending, 1, j - 1) \o SubSeq(pending, j + 1, Len(pending)),
                             trace |-> trace, h |-> heap]))

NextTask == RunTask \/ ReadCompletes

SpecTask == InitTask /\ [][NextTask]_vars

----------------------------------------------------------------------------
(* format and the parser of expressions (src/unnamed/part_009 with the      *)
(* combinators of src/unnamed/part_002 and part_003)                        *)
(*                                                                          *)
(* A text is the sequence of its tokens: a number, a name, a symbol, a text *)
(* part of a template, or a mark of punctuation. The parsers of marks skip  *)
(* the blanks around them, and format puts no blank inside a template, so   *)
(* the blanks of a text carry nothing. A parser takes the tokens left and   *)
(* returns [ok, v, n]: n the tokens after what it took, ok = FALSE a throw. *)

Mark(s) == [k |-> "mark", v |-> s]

NumTok(x) == [k |-> "num", v |-> x]

\* a name is made of letters, a symbol of the characters of sym
Word(s) == [k |-> IF s \in {"+", "-"} THEN "sym" ELSE "name", v |-> s]

Text(s) == [k |-> "text", v |-> s]

EStr(parts) == [type |-> "str", parts |-> parts]

RECURSIVE Join(_, _)
\* texts.join(delimiter)
Join(texts, delimiter) ==
    IF texts = <<>> THEN <<>>
    ELSE IF Len(texts) = 1 THEN texts[1]
    ELSE texts[1] \o delimiter \o Join(Tail(texts), delimiter)

\* fn.match(symPattern): symPattern is not among the sources; anchored like
\* namePattern it matches a text that starts with a symbol, unanchored a text that
\* has a character of sym anywhere, the `-` of an arrow included
symPattern(text, anchored) ==
    IF anchored THEN text # <<>> /\ text[1].k = "sym"
    ELSE \E j \in 1..Len(text) : text[j].k = "sym" \/ text[j] = Mark("->")

RECURSIVE format(_, _)
\* format(e): `${x}` of a missing argument is the word undefined
format(e, anchored) ==
    IF e.type = "lit" THEN <<NumTok(e.value[2])>>
    ELSE IF e.type = "text" THEN <<Text(e.text)>>
    ELSE IF e.type = "str" THEN
        <<Mark("quote")>> \o
        ConcatAll([j \in 1..Len(e.parts) |->
                    IF e.parts[j].type = "text" THEN format(e.parts[j], anchored)
                    ELSE <<Mark("{")>> \o format(e.parts[j], anchored) \o <<Mark("}")>>])
        \o <<Mark("quote")>>
    ELSE IF e.type = "rec" THEN
        <<Mark("{")>> \o
        Join([j \in 1..Len(e.record) |->
                <<Word(e.record[j][1]), Mark(":")>> \o format(e.record[j][2], anchored)], <<Mark(",")>>)
        \o <<Mark("}")>>
    ELSE IF e.type = "acc" THEN format(e.value, anchored) \o <<Mark("."), Word(e.name)>>
    ELSE IF e.type = "list" THEN
        <<Mark("[")>> \o Join([j \in 1..Len(e.values) |-> format(e.values[j], anchored)], <<Mark(",")>>)
        \o <<Mark("]")>>
    ELSE IF e.type = "id" THEN <<Word(e.name)>>
    ELSE IF e.type = "app" THEN
        IF symPattern(format(e.fn, anchored), anchored) THEN
            <<Mark("(")>>
            \o (IF Len(e.args) >= 1 THEN format(e.args[1], anchored) ELSE <<Word("undefined")>>)
            \o format(e.fn, anchored)
            \o (IF Len(e.args) >= 2 THEN format(e.args[2], anchored) ELSE <<Word("undefined")>>)
            \o <<Mark(")")>>
        ELSE format(e.fn, anchored) \o <<Mark("(")>>
             \o Join([j \in 1..Len(e.args) |-> format(e.args[j], anchored)], <<Mark(",")>>)
             \o <<Mark(")")>>
    ELSE <<Mark("\\")>>
         \o (IF Len(e.args) > 1
             THEN <<Mark("(")>> \o Join([j \in 1..Len(e.args) |-> <<Word(e.args[j].name)>>], <<Mark(",")>>)
                  \o <<Mark(")")>>
             ELSE IF Len(e.args) = 1 THEN <<Word(e.args[1].name)>>
             ELSE <<Mark("("), Mark(")")>>)
         \o <<Mark("->")>> \o format(e.body, anchored)

\* lit(str), key(str): the mark or a throw
mark(s, ts) == IF ts # <<>> /\ ts[1] = Mark(s) THEN Ok(s, Tail(ts)) ELSE Fail(ts)

\* id = alt(name, sym)
id(ts) == IF ts # <<>> /\ ts[1].k \in {"name", "sym"} THEN Ok(EId(ts[1].v), Tail(ts)) ELSE Fail(ts)

RECURSIVE expr(_)
RECURSIVE nonLeftRecursive(_)
RECURSIVE leftRecursive(_, _)
RECURSIVE item(_, _)
RECURSIVE rep(_, _, _)

\* the parsers that are repeated: an item of sep(expr, comma), of sep(id, comma) or
\* of sep(name : expr, comma), each alt(seq(parser, comma), parser), and a part of
\* a template, alt(strPart, { expr })
item(what, ts) ==
    IF what = "part" THEN
        IF ts # <<>> /\ ts[1].k = "text" THEN Ok([type |-> "text", text |-> ts[1].v], Tail(ts))
        ELSE Do(mark("{", ts), LAMBDA c, r1 :
             Do(expr(r1), LAMBDA v, r2 :
             Do(mark("}", r2), LAMBDA d, r3 : Ok(v, r3))))
    ELSE Do(IF what = "expr" THEN expr(ts)
            ELSE IF what = "id" THEN id(ts)
            ELSE IF ts # <<>> /\ ts[1].k = "name"
                 THEN Do(mark(":", Tail(ts)), LAMBDA c, r1 :
                      Do(expr(r1), LAMBDA v, r2 : Ok(<<ts[1].v, v>>, r2)))
                 ELSE Fail(ts),
            LAMBDA v, r : Ok(v, IF mark(",", r).ok THEN Tail(r) ELSE r))

\* rep(parser): the first throw ends the repetition
rep(what, ts, out) ==
    Catch(Do(item(what, ts), LAMBDA v, r : rep(what, r, Append(out, v))),
          LAMBDA r : Ok(out, ts))

\* alt(num, id, str, rec, list, lam, bet(lbrace, expr, rbrace)): the alternatives
\* start with different tokens, so the first token picks the one that can match
nonLeftRecursive(ts) ==
    IF ts = <<>> THEN Fail(ts)
    ELSE IF ts[1].k = "num" THEN Ok(ELit(<<"number", ts[1].v>>), Tail(ts))
    ELSE IF ts[1].k \in {"name", "sym"} THEN id(ts)
    ELSE IF ts[1] = Mark("quote") THEN
        Do(rep("part", Tail(ts), <<>>), LAMBDA parts, r :
        Do(mark("quote", r), LAMBDA c, r1 : Ok(EStr(parts), r1)))
    ELSE IF ts[1] = Mark("{") THEN
        Do(rep("entry", Tail(ts), <<>>), LAMBDA entries, r :
        Do(mark("}", r), LAMBDA c, r1 : Ok(ERec(Spread(<<>>, entries)), r1)))
    ELSE IF ts[1] = Mark("[") THEN
        Do(rep("expr", Tail(ts), <<>>), LAMBDA values, r :
        Do(mark("]", r), LAMBDA c, r1 : Ok(EList(values), r1)))
    ELSE IF ts[1] = Mark("\\") THEN
        Do(IF Len(ts) > 1 /\ ts[2] = Mark("(")
           THEN Do(rep("id", Tail(Tail(ts)), <<>>), LAMBDA args, r :
                Do(mark(")", r), LAMBDA c, r1 : Ok(args, r1)))
           ELSE Do(id(Tail(ts)), LAMBDA x, r : Ok(<<x>>, r)),
           LAMBDA args, r :
        Do(mark("->", r), LAMBDA c, r1 :
        Do(expr(r1), LAMBDA body, r2 : Ok(ELam(args, body), r2))))
    ELSE IF ts[1] = Mark("(") THEN
        Do(expr(Tail(ts)), LAMBDA e, r :
        Do(mark(")", r), LAMBDA c, r1 : Ok(e, r1)))
    ELSE Fail(ts)

\* alt(seq(alt(acc, prefix_app, infix_app), leftRecursive), eps), applied to the
\* expression on the left
leftRecursive(e, ts) ==
    Catch(Do(IF ts = <<>> THEN Fail(ts)
             ELSE IF ts[1] = Mark(".") THEN
                 IF Len(ts) > 1 /\ ts[2].k = "name"
                 THEN Ok([type |-> "acc", value |-> e, name |-> ts[2].v], Tail(Tail(ts)))
                 ELSE Fail(ts)
             ELSE IF ts[1] = Mark("(") THEN
                 Do(rep("expr", Tail(ts), <<>>), LAMBDA args, r :
                 Do(mark(")", r), LAMBDA c, r1 : Ok(EApp(e, args), r1)))
             ELSE IF ts[1].k = "sym" THEN
                 Do(expr(Tail(ts)), LAMBDA arg2, r : Ok(EApp(EId(ts[1].v), <<e, arg2>>), r))
             ELSE Fail(ts),
             LAMBDA e1, r : leftRecursive(e1, r)),
          LAMBDA r : Ok(e, ts))

\* map(seq(nonLeftRecursive, leftRecursive), ([e, f]) => f(e))
expr(ts) == Do(nonLeftRecursive(ts), LAMBDA e, r : leftRecursive(e, r))

\* parse(expr, input): the result of the parser, whatever input is left
parse(input) == [ok |-> expr(input).ok, v |-> expr(input).v]

----------------------------------------------------------------------------
(* State machine: format, then parse *)

\* expressions of the kinds the property test of expr.spec.ts draws, two levels deep
Asts ==
    LET IdA == EId("a")
        Level0 == {One, IdA, EId("+")}
        Over(es, fs) ==
            {EStr(<<>>), EStr(<<[type |-> "text", text |-> "hi"]>>), ERec(<<>>)}
            \cup {EStr(<<[type |-> "text", text |-> "hi"], e>>) : e \in es}
            \cup {ERec(<< <<"k", e>> >>) : e \in es}
            \cup {ERec(<< <<"k", e>>, <<"m", f>> >>) : e \in es, f \in fs}
            \cup {EApp(e, <<>>) : e \in es}
            \cup {EApp(e, <<f>>) : e \in es, f \in es}
            \cup {EApp(e, <<f, g>>) : e \in es, f \in fs, g \in fs}
            \cup {ELam(<<>>, e) : e \in es}
            \cup {ELam(<<IdA>>, e) : e \in es}
            \cup {ELam(<<IdA, EId("b")>>, e) : e \in es}
        Level1 == Level0 \cup Over(Level0, Level0)
    IN  Level1 \cup Over(Level1, Level0)

InitFormat ==
    /\ i = InitialCounter
    /\ issued = {}
    /\ calls = 0
    /\ steps = 0
    /\ t1 = Num
    /\ t2 = Num
    /\ s1 = <<>>
    /\ s2 = <<>>
    /\ ex \in Asts
    /\ typeContext = <<>>
    /\ NoRepl
    /\ op = "none"
    /\ res = [ok |-> TRUE, v |-> None, n |-> <<>>, anchored |-> TRUE]

\* const text = format(ex); const newAst = parse(expr, text)
FormatParse ==
    /\ steps < MaxSteps
    /\ steps' = steps + 1
    /\ op' = "parse"
    /\ \E anchored \in BOOLEAN :
        res' = [ok |-> parse(format(ex, anchored)).ok, v |-> parse(format(ex, anchored)).v,
                n |-> format(ex, anchored), anchored |-> anchored]
    /\ UNCHANGED <<i, issued, calls>>
    /\ Frame

SpecFormat == InitFormat /\ [][FormatParse]_vars

----------------------------------------------------------------------------
(* Claims on the unifier *)

Unified == op \in {"unify", "unifyFlipped"} /\ res.ok

\* C1 (as claimed). Unifier soundness: whenever unify(t1, t2) returns s, apply(s, t1)
\* and apply(s, t2) are equal up to renaming of type variables.
UnifierSound ==
    Unified =>
        LET a == apply(t1, res.v, res.n)
            b == apply(t2, res.v, a.n)
        IN  a.ok /\ b.ok /\ AlphaEq(a.v, b.v, AllNames)

\* the call the last action made: unify(Left, Right)
Left == IF op = "unifyFlipped" THEN t2 ELSE t1

Right == IF op = "unifyFlipped" THEN t1 ELSE t2

UnifyCalled == op \in {"unify", "unifyFlipped"}

\* C4. Occurs safety: unify(v, t) and unify(t, v), for a variable v and a type t
\* other than v with v in free(t), throw and return no substitution; unify(v, v)
\* returns the empty substitution.
OccursSafe ==
    UnifyCalled =>
        /\ (Left.kind = "id" /\ Right # Left /\ occurs(Left.name, Right))
                => (~res.ok /\ res.v = <<>>)
        /\ (Right.kind = "id" /\ Right # Left /\ occurs(Right.name, Left))
                => (~res.ok /\ res.v = <<>>)
        /\ (Left.kind = "id" /\ Right = Left) => (res.ok /\ res.v = <<>>)

\* a row variable unified with an open row it is the tail of: rejected
OccursWitness ==
    /\ op = "unifyFlipped"
    /\ Right.kind = "id" /\ Left.kind = "rec" /\ Left.open /\ Left.rest = Right
    /\ Len(Left.items) = 2
    /\ ~res.ok

OnlyIn(l, r) == KeySet(l.items) \ KeySet(r.items)

SharedUnifiable(l, r) ==
    \A k \in KeySet(l.items) \cap KeySet(r.items) :
        unify(Get(l.items, k), Get(r.items, k), [i |-> res.i0, log |-> <<>>]).ok

TailsApart(l, r) ==
    /\ l.rest # r.rest
    /\ \A t \in {l, r} : \A j \in 1..Len(t.items) :
            {l.rest.name, r.rest.name} \cap Range(NamesOf(t.items[j][2])) = {}

RowCase ==
    /\ UnifyCalled
    /\ Left.kind = "rec" /\ Right.kind = "rec" /\ Left.union = Right.union
    /\ TailsApart(Left, Right)
    /\ SharedUnifiable(Left, Right)

\* C9. Row width rule: two rows with the same union flag, unifiable shared keys and
\* distinct tails that occur in no item unify iff both are open, or each side's
\* extra keys are absent or allowed by the other side being open.
RowWidthRule ==
    RowCase =>
        (res.ok <=> \/ (Left.open /\ Right.open)
                    \/ /\ (OnlyIn(Left, Right) = {} \/ Right.open)
                       /\ (OnlyIn(Right, Left) = {} \/ Left.open))

\* closed {x: Num} against closed {x: Num, y: Str}: rejected
RowWidthWitness ==
    /\ RowCase /\ op = "unify"
    /\ ~t1.open /\ ~t2.open /\ ~t1.union
    /\ t1.items = << <<"x", Num>> >>
    /\ t2.items = << <<"x", Num>>, <<"y", Str>> >>
    /\ ~res.ok

Perms(s) ==
    {[j \in 1..Len(s) |-> s[f[j]]] :
        f \in {g \in [1..Len(s) -> 1..Len(s)] : \A j, k \in 1..Len(s) : j # k => g[j] # g[k]}}

\* unify(l, r) from the counter value the recorded call started with
Again(l, r) == unify(l, r, [i |-> res.i0, log |-> <<>>])

SameOutcome(r1, l1, rg1, r2, l2, rg2) ==
    /\ r1.ok = r2.ok
    /\ r1.ok =>
        LET a1 == apply(l1, r1.v, r1.n)
            b1 == apply(rg1, r1.v, r1.n)
            a2 == apply(l2, r2.v, r2.n)
            b2 == apply(rg2, r2.v, r2.n)
        IN  /\ a1.ok = a2.ok /\ b1.ok = b2.ok
            /\ (a1.ok /\ a2.ok) => AlphaEq(a1.v, a2.v, AllNames)
            /\ (b1.ok /\ b2.ok) => AlphaEq(b1.v, b2.v, AllNames)

\* C6 (as claimed). Row commutativity: listing the keys of either row in another
\* order changes neither whether unify succeeds nor the two types obtained from
\* the returned substitution, up to renaming of variables.
RowCommutative ==
    (UnifyCalled /\ Left.kind = "rec" /\ Right.kind = "rec") =>
        /\ \A p \in Perms(Left.items) :
              LET l2 == [Left EXCEPT !.items = p]
              IN  SameOutcome(res, Left, Right, Again(l2, Right), l2, Right)
        /\ \A p \in Perms(Right.items) :
              LET r2 == [Right EXCEPT !.items = p]
              IN  SameOutcome(res, Left, Right, Again(Left, r2), Left, r2)

\* s1 makes t1 and t2 equal
OtherUnifies == apply(t1, s1, Counter0).v = apply(t2, s1, Counter0).v

\* what a substitution makes of the variable nm
At(subst, nm) == apply(TId(nm), subst, Counter0).v

\* two names that occur in no type and no substitution drawn
AuxNames == <<0 - 21, 0 - 22>>

\* there is a substitution r of atoms and spare names for a, b, c and the spare
\* names that F holds of. compose(r, s) looks a name up in r at most twice, so the
\* only use r has for a name outside the types is as a stop on the way from a
\* variable that s leaves alone to its image; two types with two argument places
\* leave at most two such variables.
SomeFactor(F(_)) ==
    LET names == [k \in 1..(NVars + 1) |-> 0 - k] \o AuxNames
    IN  \E f \in [Range(names) -> GenAtoms \cup {TId(nm) : nm \in Range(AuxNames)}] :
            F(SubstOf(f, names))

\* s1 = compose(r, s) on the variables of t1 and t2
FactorsThrough(r, s) ==
    LET c == compose(r, s, Counter0)
    IN  c.ok /\ \A nm \in Range(NamesOf(t1)) \cup Range(NamesOf(t2)) : At(c.v, nm) = At(s1, nm)

\* C3 (as claimed). Most-generality: whenever unify(t1, t2) returns s, every other
\* substitution s1 that makes t1 and t2 equal is compose(r, s), for some r, on the
\* variables of t1 and t2.
MostGeneral ==
    (op = "unify" /\ res.ok /\ OtherUnifies) => SomeFactor(LAMBDA r : FactorsThrough(r, res.v))

\* s1 applied twice is s1 applied once
Idempotent == \A j \in 1..Len(s1) : apply(s1[j][2], s1, Counter0).v = s1[j][2]

\* C3 holds of the idempotent substitutions s1
MostGeneralIdempotent ==
    (op = "unify" /\ res.ok /\ OtherUnifies /\ Idempotent) =>
        SomeFactor(LAMBDA r : FactorsThrough(r, res.v))

----------------------------------------------------------------------------
(* Claims on substitutions and schemes *)

\* C2 (as claimed). Composition law: apply(compose(s1, s2), t) equals
\* apply(s1, apply(s2, t)) up to the names of the row tails fresh() made, for all
\* substitutions s1, s2 (s1 not idempotent, a variable bound in both, included).
ComposeLaw ==
    op = "composeApply" =>
        LET x == apply(t1, s2, [i |-> res.i0, log |-> <<>>])
            y == IF x.ok THEN apply(x.v, s1, x.n) ELSE Fail(x.n)
        IN  /\ res.ok = y.ok
            /\ res.ok => AlphaEq(res.v, y.v, res.i0)

RECURSIVE FreeVars(_)
\* the variables a type is generalised over: every variable of an argument or an
\* item, and the tail of a row exactly when the row is open
FreeVars(t) ==
    IF t.kind = "id" THEN {t.name}
    ELSE IF t.kind = "cons" THEN UNION {FreeVars(t.args[j]) : j \in 1..Len(t.args)}
    ELSE UNION {FreeVars(t.items[j][2]) : j \in 1..Len(t.items)}
            \cup (IF t.open THEN {t.rest.name} ELSE {})

RECURSIVE RenameAll(_, _)
\* t with every occurrence of a name of DOMAIN m replaced
RenameAll(t, m) ==
    IF t.kind = "id" THEN (IF t.name \in DOMAIN m THEN TId(m[t.name]) ELSE t)
    ELSE IF t.kind = "cons" THEN Cons(t.name, [j \in 1..Len(t.args) |-> RenameAll(t.args[j], m)])
    ELSE TRec(t.union, t.open,
              [j \in 1..Len(t.items) |-> <<t.items[j][1], RenameAll(t.items[j][2], m)>>],
              RenameAll(t.rest, m))

\* C5. generalize(t) quantifies exactly free(t), each variable once (the tail of an
\* open row is among them, the tail of a closed row is not unless it is also an
\* item), and instantiate(generalize(t)) is t with its free variables renamed one
\* to one to variables fresh() made.
GenInstRoundTrip ==
    /\ op = "generalize" =>
          /\ Range(res.v.args) = FreeVars(t1)
          /\ Len(res.v.args) = Cardinality(FreeVars(t1))
    /\ op = "instantiate" =>
          /\ res.ok
          /\ \E m \in [FreeVars(t1) -> Range(res.n.log)] :
                /\ \A x, y \in FreeVars(t1) : x # y => m[x] # m[y]
                /\ res.v = RenameAll(t1, m)

\* a closed row with a variable item: the item is renamed, the tail is kept
GenInstWitness ==
    /\ op = "instantiate"
    /\ t1.kind = "rec" /\ ~t1.open /\ Len(t1.items) = 2
    /\ FreeVars(t1) = {0 - 1}
    /\ res.ok /\ res.v.rest = t1.rest /\ res.v # t1

----------------------------------------------------------------------------
(* Claims on the inferencer and the counter *)

\* what infer returned for the scrutinee: it is inferred right after out = fresh()
ScrutineeType ==
    infer(ex.value, typeContext, fresh([i |-> res.i0, log |-> <<>>]).n).v[2]

ScrutineeTags == IF ScrutineeType.kind = "rec" THEN KeySet(ScrutineeType.items) ELSE {}

PatternTags == {ex.cases[j][1].name : j \in 1..Len(ex.cases)}

MatchNoElse == op = "infer" /\ ex.type = "match" /\ ex.otherwise = None

\* C10 (as claimed). Exhaustiveness: a Match without otherwise fails when the
\* scrutinee's inferred variant type has a tag no pattern names; otherwise it
\* succeeds, and the scrutinee's type under the returned substitution is the closed
\* variant whose tags are exactly the pattern tags.
MatchExhaustive ==
    MatchNoElse =>
        /\ ~(ScrutineeTags \subseteq PatternTags) => ~res.ok
        /\ (ScrutineeTags \subseteq PatternTags) =>
            /\ res.ok
            /\ LET ty == apply(ScrutineeType, res.v[1], res.n)
               IN  /\ ty.ok
                   /\ ty.v.kind = "rec" /\ ty.v.union /\ ~ty.v.open
                   /\ KeySet(ty.v.items) = PatternTags

\* a variant row that admits no further tag and has exactly these tags
ClosedVariant(t, tags) == t.kind = "rec" /\ t.union /\ ~t.open /\ KeySet(t.items) = tags

\* C11 (as claimed). when Hot(Very) is Hot(x) -> x, without else, has as result
\* type the closed variant [Very], and under the returned substitution the
\* scrutinee's type is the closed variant [Hot<[Very]>].
HotVeryClosed ==
    (op = "infer" /\ ex = HotVery) =>
        /\ res.ok
        /\ ClosedVariant(res.v[2], {"Very"})
        /\ LET ty == apply(ScrutineeType, res.v[1], res.n)
           IN  /\ ty.ok
               /\ ClosedVariant(ty.v, {"Hot"})
               /\ ClosedVariant(Get(ty.v.items, "Hot"), {"Very"})

\* what of C11 holds of the code: inference succeeds, the result type is the open
\* variant whose only tag is Very, and the scrutinee's own type keeps its one tag Hot
HotVeryOpen ==
    (op = "infer" /\ ex = HotVery) =>
        /\ res.ok
        /\ res.v[2].kind = "rec" /\ res.v[2].union /\ res.v[2].open
        /\ KeySet(res.v[2].items) = {"Very"}
        /\ LET ty == apply(ScrutineeType, res.v[1], res.n)
           IN  ty.ok /\ ty.v.kind = "rec" /\ ty.v.union /\ KeySet(ty.v.items) = {"Hot"}

\* C8. Freshness: over the calls made so far no name was returned twice, every
\* returned name is below the counter, and a step never lowers the counter.
FreshNames ==
    /\ [](Cardinality(issued) = calls /\ \A nm \in issued : nm < i)
    /\ [][i' >= i]_vars

\* two calls in a row that both took names
FreshWitness ==
    /\ steps = 2 /\ op = "infer" /\ ex.type = "match" /\ res.ok
    /\ Len(res.n.log) > 3 /\ res.i0 > InitialCounter /\ calls > Len(res.n.log)

\* the parts of C10 that hold of the code: rejection, acceptance, and the closed
\* type when the scrutinee is a variable
MatchExhaustiveOnVariables ==
    MatchNoElse =>
        /\ ~(ScrutineeTags \subseteq PatternTags) => ~res.ok
        /\ (ScrutineeTags \subseteq PatternTags) =>
            /\ res.ok
            /\ ScrutineeType.kind = "id" =>
               LET ty == apply(ScrutineeType, res.v[1], res.n)
               IN  /\ ty.ok
                   /\ ty.v.kind = "rec" /\ ty.v.union /\ ~ty.v.open
                   /\ KeySet(ty.v.items) = PatternTags

\* the type of the environment's monomorphic variable v under the returned substitution
TypeOfV == apply(Get(typeContext, "v").type, res.v[1], res.n)

\* C12. when v is Ok(x) -> x else Err, with v an unconstrained monomorphic variable,
\* is well typed, and under the returned substitution v's type is a variant row
\* that has the tag Ok and is still open.
OkElseErrOpen ==
    (op = "infer" /\ ex = OkElseErr) =>
        /\ res.ok
        /\ TypeOfV.ok
        /\ TypeOfV.v.kind = "rec" /\ TypeOfV.v.union
        /\ Has(TypeOfV.v.items, "Ok")
        /\ TypeOfV.v.open

OkElseErrWitness ==
    /\ op = "infer" /\ ex = OkElseErr /\ res.ok
    /\ Get(typeContext, "v") = Scheme(<<>>, TId(0 - 1))
    /\ TypeOfV.ok /\ TypeOfV.v.kind = "rec" /\ KeySet(TypeOfV.v.items) = {"Ok"}

\* a record row with this open flag and exactly these fields
RecordOf(t, open, fields) ==
    t.kind = "rec" /\ ~t.union /\ t.open = open /\ Range(t.items) = fields

IsFunc(t, arity) == t.kind = "cons" /\ t.name = "Func" /\ Len(t.args) = arity + 1

\* C13 (as claimed). With add, getHello, getBar and getBaz in the environment,
\* \x -> {hello: add(getHello(x), getBar(x)), baz: getBaz(x)} has a function type
\* whose parameter is the open record with exactly hello: num, bar: num, baz: str
\* and whose result is the closed record {hello: num, baz: str}.
HelloBarBazTyped ==
    (op = "infer" /\ ex = HelloBarBaz) =>
        /\ res.ok
        /\ IsFunc(res.v[2], 1)
        /\ RecordOf(res.v[2].args[1], TRUE, {<<"hello", Num>>, <<"bar", Num>>, <<"baz", Str>>})
        /\ RecordOf(res.v[2].args[2], FALSE, {<<"hello", Num>>, <<"baz", Str>>})

\* what of C13 holds of the code: the body is the closed record {hello: num, baz: str}
\* and the parameter is an open record, which has the field hello only
HelloBarBazBody ==
    (op = "infer" /\ ex = HelloBarBaz) =>
        /\ res.ok
        /\ IsFunc(res.v[2], 1)
        /\ RecordOf(res.v[2].args[1], TRUE, {<<"hello", Num>>})
        /\ RecordOf(res.v[2].args[2], FALSE, {<<"hello", Num>>, <<"baz", Str>>})

\* the element type of the list type infer returned
ElementType == res.v[2].args[1]

\* C14. [\x -> x.bar, \x -> x.foo] has the type List<Func<R, a>> where R is an
\* open record row with exactly the keys bar and foo, both of the type a, which
\* is also the function's result type.
AccessorListTyped ==
    (op = "infer" /\ ex = AccessorList) =>
        /\ res.ok
        /\ res.v[2].kind = "cons" /\ res.v[2].name = "List" /\ Len(res.v[2].args) = 1
        /\ IsFunc(ElementType, 1)
        /\ RecordOf(ElementType.args[1], TRUE,
                    {<<"bar", ElementType.args[2]>>, <<"foo", ElementType.args[2]>>})
        /\ ElementType.args[1].rest.kind = "id"

AccessorListWitness ==
    /\ op = "infer" /\ ex = AccessorList /\ res.ok
    /\ IsFunc(ElementType, 1)
    /\ ElementType.args[2].kind = "id"
    /\ KeySet(ElementType.args[1].items) = {"bar", "foo"}

\* C15 (as claimed). Lambda parameters are monomorphic: a lambda whose body
\* uses its parameter at two types that do not unify, in two fields of one record
\* (\x -> {a: x + 1, b: x ^ 'a'}) or in two elements of one list
\* (\f -> [f(1), f('a')]), is rejected.
MonomorphicParameters ==
    (op = "infer" /\ ex \in {NumAndStr, OnNumAndStr}) => ~res.ok

\* what holds of the code: parameters each used once get the types their use
\* forces, \(x, y) -> x + y : Func<num, num, num>
ParameterUsedOnce ==
    (op = "infer" /\ ex = ELam(<<EId("x"), EId("y")>>, EApp(EId("+"), <<EId("x"), EId("y")>>))) =>
        res.ok /\ res.v[2] = Lam(<<Num, Num, Num>>)

\* the binding compose(s1, s2) holds for x is apply(s1, t), up to the row tails
\* fresh() made
BoundTo(x, t) ==
    LET y == apply(t, s1, [i |-> res.i0, log |-> <<>>])
    IN  y.ok /\ AlphaEq(Get(res.v, x), y.v, res.i0)

Collision == {x \in KeySet(s1) \cap KeySet(s2) : Get(s1, x) # Get(s2, x)}

\* C16 (as claimed). compose(s1, s2) has the domain dom(s1) \cup dom(s2) and maps
\* each x to apply(s1, t) for its binding x |-> t, where a variable bound in both
\* takes its binding from s1.
ComposeLeftWins ==
    (op = "compose" /\ res.ok) =>
        /\ KeySet(res.v) = KeySet(s1) \cup KeySet(s2)
        /\ \A x \in KeySet(res.v) :
              BoundTo(x, IF Has(s1, x) THEN Get(s1, x) ELSE Get(s2, x))

\* C16 (amended). compose(s1, s2) has the domain dom(s1) \cup dom(s2) and maps
\* each x to apply(s1, t) for its binding x |-> t, where a variable bound in both
\* takes its binding from s2.
ComposeRightWins ==
    (op = "compose" /\ res.ok) =>
        /\ KeySet(res.v) = KeySet(s1) \cup KeySet(s2)
        /\ \A x \in KeySet(res.v) :
              BoundTo(x, IF Has(s2, x) THEN Get(s2, x) ELSE Get(s1, x))

\* s1 and s2 bind one variable to types that stay different under s1, and s1
\* binds a variable that s2 does not
ComposeWitness ==
    /\ op = "compose" /\ res.ok
    /\ \E x \in Collision : BoundTo(x, Get(s2, x)) /\ ~BoundTo(x, Get(s1, x))
    /\ KeySet(s1) \ KeySet(s2) # {}

\* what the substitution binds the tail of the row t1 to
TailOfT1 == Get(s1, t1.rest.name)

\* apply(t1)(s1) was called on a row whose tail s1 binds to a row of the same kind
RowMerged ==
    /\ op = "apply" /\ t1.kind = "rec"
    /\ Has(s1, t1.rest.name)
    /\ TailOfT1.kind = "rec" /\ TailOfT1.union = t1.union

\* the result is one flat row over the keys of both rows, open when both are
MergedFlat ==
    /\ res.ok
    /\ res.v.kind = "rec" /\ res.v.union = t1.union
    /\ res.v.rest.kind = "id"
    /\ KeySet(res.v.items) = KeySet(t1.items) \cup KeySet(TailOfT1.items)
    /\ res.v.open = (t1.open /\ TailOfT1.open)

OuterItem(k) == apply(Get(t1.items, k), s1, [i |-> res.i0, log |-> <<>>]).v

\* C17 (as claimed). Row merging: when the tail of a row resolves to a row with
\* the same union flag, apply returns one flat row whose keys are the union of
\* both key sets, whose open flag is outer.open and tail.open, and in which every
\* key of the outer row, a key of the tail too included, has the outer row's
\* substituted item type.
RowMergeOuterWins ==
    RowMerged =>
        /\ MergedFlat
        /\ \A k \in KeySet(t1.items) : AlphaEq(Get(res.v.items, k), OuterItem(k), res.i0)

\* what of C17 holds of the code: the merged row is flat, has the keys of both
\* rows and the conjunction of the open flags; a key of both rows has the tail's
\* item type, and only the other keys of the outer row have the outer row's
RowMergeTailWins ==
    RowMerged =>
        /\ MergedFlat
        /\ \A k \in KeySet(TailOfT1.items) : Get(res.v.items, k) = Get(TailOfT1.items, k)
        /\ \A k \in KeySet(t1.items) \ KeySet(TailOfT1.items) :
              AlphaEq(Get(res.v.items, k), OuterItem(k), res.i0)

\* the scheme the environment holds for the identifier ex
SchemeOfEx == Get(typeContext, ex.name)

\* t is the scheme's body with its quantified variables renamed one to one to
\* variables that fresh() made during this call, none of them issued before it
FreshInstance(t, scheme) ==
    \E m \in [Range(scheme.args) -> {nm \in Range(res.n.log) : nm >= res.i0}] :
        /\ \A x, y \in Range(scheme.args) : x # y => m[x] # m[y]
        /\ t = RenameAll(scheme.type, m)

IdentifierCall ==
    /\ (op = "infer" /\ ex.type = "id") =>
          /\ res.ok = Has(typeContext, ex.name)
          /\ res.ok => res.v[1] = <<>> /\ FreshInstance(res.v[2], SchemeOfEx)
    /\ (op = "infer" /\ ex = IdTwice) =>
          /\ res.ok
          /\ \A k \in {"a", "b"} : FreshInstance(Get(res.v[2].items, k), Get(typeContext, "id"))
          /\ Range(NamesOf(Get(res.v[2].items, "a"))) \cap Range(NamesOf(Get(res.v[2].items, "b"))) = {}
    /\ (op = "infer" /\ ex = IdAtTwoTypes) =>
          res.ok /\ RecordOf(res.v[2], FALSE, {<<"a", Num>>, <<"b", Str>>})

\* C18. Identifier inference: infer of Id(name) succeeds exactly when name is in
\* the environment; it then returns the empty substitution and the scheme's body
\* with every quantified variable replaced by a variable fresh() never returned
\* before, and it leaves the environment as it was. Two occurrences of one
\* polymorphic name share no quantified variable and can be used at two types.
IdentifierRule ==
    /\ []IdentifierCall
    /\ [][op' = "infer" => typeContext' = typeContext]_vars

\* a polymorphic name over a row was instantiated after other names were issued
IdentifierWitness ==
    /\ op = "infer" /\ ex = EId("getBar") /\ res.ok
    /\ res.i0 > InitialCounter
    /\ SchemeOfEx.args # <<>>
    /\ res.v[2] # SchemeOfEx.type

\* what infer returned for the record of the accessor ex: it is inferred first
RecOfAcc == infer(ex.rec, typeContext, [i |-> res.i0, log |-> <<>>])

\* C19 (as claimed). Substitutions only grow: the substitution infer returns for
\* Acc(rec, prop) binds every variable that the substitution returned for rec
\* binds, and the returned type is the field's type under that substitution.
SubstitutionsGrow ==
    (op = "infer" /\ ex.type = "acc" /\ res.ok) =>
        /\ RecOfAcc.ok
        /\ KeySet(RecOfAcc.v[1]) \subseteq KeySet(res.v[1])

\* what of C19 holds of the code: the substitution returned for Acc binds the
\* variable that stands for the record's type when rec is a variable, to an open
\* record that has the field prop with the returned type
AccOnVariable ==
    (op = "infer" /\ ex.type = "acc" /\ res.ok /\ RecOfAcc.v[2].kind = "id") =>
        /\ Has(res.v[1], RecOfAcc.v[2].name)
        /\ RecordOf(Get(res.v[1], RecOfAcc.v[2].name), TRUE, {<<ex.prop, res.v[2]>>})

\* neither type is a variable and their heads differ: a constructor against a
\* row, two constructors of different names or numbers of arguments, or a record
\* against a variant
HeadMismatch(a, b) ==
    /\ a.kind # "id" /\ b.kind # "id"
    /\ \/ a.kind # b.kind
       \/ a.kind = "cons" /\ b.kind = "cons" /\ a.name # b.name
       \/ a.kind = "cons" /\ b.kind = "cons" /\ Len(a.args) # Len(b.args)
       \/ a.kind = "rec" /\ b.kind = "rec" /\ a.union # b.union

\* C20. Head mismatch is always an error: unify of two types, neither a variable,
\* throws and returns no substitution when one is a constructor and the other a
\* row, when both are constructors of different names or numbers of arguments,
\* or when both are rows of different union flags.
HeadMismatchFails ==
    (op \in {"unify", "unifyFlipped"} /\ HeadMismatch(t1, t2)) => ~res.ok

\* a function of two arguments met a function of one argument, and unify threw
HeadMismatchWitness ==
    /\ op = "unify" /\ ~res.ok
    /\ t1 = Lam(<<TId(0 - 1), TId(0 - 1), Num>>) /\ t2 = Lam(<<TId(0 - 1), Num>>)
    /\ HeadMismatch(t1, t2)

\* the type of the list's j-th element, inferred on its own with names the call
\* did not use, under the substitution infer returned for the list
ElementUnder(j) ==
    Do(infer(ex.values[j], typeContext, [i |-> res.n.i, log |-> <<>>]),
       LAMBDA r, n1 : apply(r[2], res.v[1], n1))

\* C24 (as claimed). Lists are homogeneous: a list with two elements whose types
\* do not unify, at any positions, is rejected, and an accepted list has the type
\* List<t> where t is the type of each of its elements under the returned
\* substitution.
ListHomogeneous ==
    (op = "infer" /\ ex \in PlainLists) =>
        /\ ex \in MixedLists => ~res.ok
        /\ res.ok =>
              /\ res.v[2].kind = "cons" /\ res.v[2].name = "List" /\ Len(res.v[2].args) = 1
              /\ \A j \in 1..Len(ex.values) :
                    ElementUnder(j).ok /\ AlphaEq(ElementUnder(j).v, res.v[2].args[1], res.i0)

\* what of C24 holds of the code: lists of literals and variables are homogeneous
ListOfAtomsHomogeneous ==
    (op = "infer" /\ ex \in PlainLists /\ ex # RecordList) =>
        /\ ex \in MixedLists => ~res.ok
        /\ res.ok =>
              /\ res.v[2].kind = "cons" /\ res.v[2].name = "List" /\ Len(res.v[2].args) = 1
              /\ \A j \in 1..Len(ex.values) :
                    ElementUnder(j).ok /\ AlphaEq(ElementUnder(j).v, res.v[2].args[1], res.i0)

RECURSIVE BoundNames(_)
\* the identifiers a pattern binds, at any depth
BoundNames(p) ==
    IF p.type = "id" THEN {p.name}
    ELSE IF p.type = "patrec" THEN UNION {BoundNames(p.record[j][2]) : j \in 1..Len(p.record)}
    ELSE IF p.type = "patlist" THEN UNION {BoundNames(p.values[j]) : j \in 1..Len(p.values)}
    ELSE IF p.type = "patcons" THEN BoundNames(p.value)
    ELSE {}

\* C23 (as claimed). Pattern bindings are in scope: for every case of a Match the
\* names put in the right-hand side's environment are the identifiers bound
\* anywhere in the pattern, so a right-hand side that is a pattern-bound name is
\* well typed.
PatternBindingsInScope ==
    (op = "infer" /\ ex \in PatternMatches) =>
        /\ \A j \in 1..Len(ex.cases) :
              Range(freeVars(toConsExpr(ex.cases[j][1]))) = BoundNames(ex.cases[j][1])
        /\ res.ok

\* what of C23 holds of the code: a pattern that binds one name of one character,
\* directly or nested, brings it in scope
SinglePatternBinding ==
    (op = "infer" /\ ex \in PatternMatches /\ BoundNames(ex.cases[1][1]) = {"x"}) => res.ok

\* t is a closed row, unify succeeded on t and u, and the row u has no key
\* that t lacks (and the same keys when it is closed too); t keeps its keys and
\* stays closed under the returned substitution
FixedWidth(t, u) ==
    (t.kind = "rec" /\ ~t.open) =>
        /\ u.kind = "rec" =>
              /\ KeySet(u.items) \subseteq KeySet(t.items)
              /\ ~u.open => KeySet(u.items) = KeySet(t.items)
        /\ LET y == apply(t, res.v, res.n)
           IN  /\ y.ok
               /\ y.v.kind = "rec" /\ ~y.v.open
               /\ KeySet(y.v.items) = KeySet(t.items)

\* C25. A closed row is fixed in width: whenever unify(t, u) succeeds with t a
\* closed row, every key of u is a key of t, apply(s, t) has exactly the keys of
\* t and is closed, and when u is closed too the key sets are equal.
ClosedRowFixed ==
    (UnifyCalled /\ res.ok) => FixedWidth(Left, Right) /\ FixedWidth(Right, Left)

\* a closed row of two keys unified with an open row that has one of them
ClosedRowWitness ==
    /\ op = "unify" /\ res.ok
    /\ t1.kind = "rec" /\ ~t1.open /\ KeySet(t1.items) = {"x", "y"}
    /\ t2.kind = "rec" /\ t2.open /\ KeySet(t2.items) = {"y"}
    /\ t1.rest # t2.rest

RECURSIVE VarsOf(_)
\* every variable of a type, the tails of its rows, open or closed, included
VarsOf(t) ==
    IF t.kind = "id" THEN {t.name}
    ELSE IF t.kind = "cons" THEN UNION {VarsOf(t.args[j]) : j \in 1..Len(t.args)}
    ELSE VarsOf(t.rest) \cup UNION {VarsOf(t.items[j][2]) : j \in 1..Len(t.items)}

\* no binding x |-> t with t other than x and x among the variables of t
Acyclic(s) == \A j \in 1..Len(s) : s[j][2] = TId(s[j][1]) \/ s[j][1] \notin VarsOf(s[j][2])

\* C26 (as claimed). No cyclic bindings: a substitution returned by unify binds no
\* variable to a type other than itself in which the variable occurs, tail
\* variables included.
NoCyclicBindings == Unified => Acyclic(res.v)

\* what of C26 holds of the code: unless two rows were unified, no variable is
\* bound to a type in whose free variables it occurs, where free leaves out the
\* tail of a closed row
NoCyclicBindingsOffRows ==
    (Unified /\ ~(t1.kind = "rec" /\ t2.kind = "rec")) =>
        \A j \in 1..Len(res.v) : ~occurs(res.v[j][1], res.v[j][2])

----------------------------------------------------------------------------
(* Claims on the evaluator *)

Evaluated == op = "evaluate"

\* the scrutinee of the program, which is a tag built from literals
ScrutineeOf(e) == evaluate(e.value, valueContext, <<>>).v

\* a case's pattern matches a tag: the same name, a payload on both sides or on
\* neither, and the payload's pattern matches the payload
CaseMatches(ptn, val) ==
    /\ ptn.name = val.name
    /\ (ptn.value.type = "none") = (val.value = Undefined)
    /\ ptn.value.type # "none" => match(ptn.value, val.value, <<>>).ok

\* the environment of a case's right-hand side
CaseContext(ptn, val) ==
    IF ptn.value.type = "none" THEN valueContext
    ELSE Spread(valueContext, match(ptn.value, val.value, <<>>).v)

FirstMatching(e) ==
    CHOOSE j \in 1..Len(e.cases) :
        /\ CaseMatches(e.cases[j][1], ScrutineeOf(e))
        /\ \A k \in 1..(j - 1) : ~CaseMatches(e.cases[k][1], ScrutineeOf(e))

SomeCaseMatches(e) == \E j \in 1..Len(e.cases) : CaseMatches(e.cases[j][1], ScrutineeOf(e))

\* the outcome of the right-hand side of the first matching case, its error included
FirstMatchingOutcome(e) ==
    evaluate(e.cases[FirstMatching(e)][2],
             CaseContext(e.cases[FirstMatching(e)][1], ScrutineeOf(e)), <<>>)

SameResult(r, q) == r.ok = q.ok /\ (r.ok => r.v = q.v)

\* C22 (as claimed). A match returns the value of the right-hand side of the first
\* case whose pattern matches the scrutinee, an error raised by that right-hand
\* side is reported and no later case or otherwise branch runs; the otherwise
\* branch runs when no case matches, and without one the evaluation fails.
MatchFirstCase ==
    Evaluated =>
        IF SomeCaseMatches(ex) THEN SameResult(res, FirstMatchingOutcome(ex))
        ELSE IF ex.otherwise.type = "none" THEN ~res.ok
        ELSE SameResult(res, evaluate(ex.otherwise, valueContext, <<>>))

\* what of C22 holds of the code: for a scrutinee whose payload is not 0, when the
\* right-hand side of the first matching case raises no error the match returns
\* its value, and when no case matches the otherwise branch decides
MatchFirstCaseUnlessError ==
    (Evaluated /\ ex.value # ECons("A", Zero)) =>
        IF SomeCaseMatches(ex)
        THEN FirstMatchingOutcome(ex).ok => SameResult(res, FirstMatchingOutcome(ex))
        ELSE IF ex.otherwise.type = "none" THEN ~res.ok
        ELSE SameResult(res, evaluate(ex.otherwise, valueContext, <<>>))

----------------------------------------------------------------------------
(* Claims on the REPL and the standard library *)

RECURSIVE Contents(_, _)
\* a value with the elements of its arrays in place of the arrays
Contents(v, h) ==
    IF v.vk = "lst" THEN [vk |-> "lst", items |-> [j \in 1..Len(h[v.addr]) |-> Contents(h[v.addr][j], h)]]
    ELSE IF v.vk = "rec" THEN
        VRec([j \in 1..Len(v.fields) |-> <<v.fields[j][1], Contents(v.fields[j][2], h)>>])
    ELSE IF v.vk = "tag" THEN tag(v.name, Contents(v.value, h))
    ELSE v

\* the bindings of the value environment: each name with what it denotes
BindingsOf(vc, h) == {<<vc[j][1], Contents(vc[j][2], h)>> : j \in 1..Len(vc)}

\* the bindings of the typing environment
TypesOf(tc) == {<<tc[j][1], tc[j][2]>> : j \in 1..Len(tc)}

\* C27 (as claimed). A failed REPL command changes nothing: when processing a line
\* raises an error, typeContext and valueContext have after the command exactly
\* the bindings they had before it.
FailedCommandChangesNothing ==
    [][console' = "error" =>
        /\ TypesOf(typeContext') = TypesOf(typeContext)
        /\ BindingsOf(valueContext', heap') = BindingsOf(valueContext, heap)]_vars

\* what of C27 holds of the code: a command that fails and is neither an assignment
\* nor a call of fold changes no binding
FailedCommandOffAssignment ==
    [][(console' = "error" /\ line'.type # "assignment"
            /\ ~(line'.type = "evaluate" /\ line'.expr.type = "app" /\ line'.expr.fn = EId("fold"))) =>
        /\ TypesOf(typeContext') = TypesOf(typeContext)
        /\ BindingsOf(valueContext', heap') = BindingsOf(valueContext, heap)]_vars

\* the line just read evaluates the name that the line before it assigned, and that
\* assignment ended without an error
ReadsLastAssigned ==
    /\ line.type = "assignment" /\ console = "ok"
    /\ line'.type = "evaluate" /\ ~line'.run /\ line'.expr = EId(line.id)

\* C28 (as claimed). A REPL binding is readable afterwards: after an assignment
\* `name = e` that completed without error, a command that evaluates name succeeds
\* and yields the value e evaluated to, 0 and the empty string included.
BindingReadable ==
    [][ReadsLastAssigned =>
        console' = "ok" /\ Contents(res'.v, heap') = Contents(res.v, heap)]_vars

\* what of C28 holds of the code: the binding is readable when its value is neither
\* 0 nor the empty string
TruthyBindingReadable ==
    [][(ReadsLastAssigned /\ Truthy(res.v)) =>
        console' = "ok" /\ Contents(res'.v, heap') = Contents(res.v, heap)]_vars

IsFold(cmd) == cmd.type = "evaluate" /\ cmd.expr.type = "app" /\ cmd.expr.fn = EId("fold")

\* C30 (as claimed). Evaluation does not mutate values: a fold over a list bound in
\* the value environment leaves every binding as it was, and evaluating the same
\* fold expression again gives the same result.
FoldLeavesList ==
    [][IsFold(line') =>
        /\ BindingsOf(valueContext', heap') = BindingsOf(valueContext, heap)
        /\ (line = line' /\ console = "ok") =>
                console' = "ok" /\ Contents(res'.v, heap') = Contents(res.v, heap)]_vars

\* what of C30 holds of the code: fold keeps the elements of the list, in some order
FoldKeepsElements ==
    [][(IsFold(line') /\ Has(valueContext, "xs")) =>
        /\ Has(valueContext', "xs")
        /\ Range(Contents(Get(valueContext', "xs"), heap').items)
            = Range(Contents(Get(valueContext, "xs"), heap).items)]_vars

\* the callbacks of bind that were called
BindCallbacks == {trace[j].cb : j \in {k \in 1..Len(trace) : trace[k].cb.k = "bind"}}

CallsOf(cb) == Cardinality({j \in 1..Len(trace) : trace[j].ev = "call" /\ trace[j].cb = cb})

\* C29. Task bind short-circuits on error: for every bind(task, cont), cont is
\* called only right after task completed with Ok; when task completes with another
\* tag, that same tag value goes to the callback of the bound task and cont is not
\* called; and the callback of the bound task is called at most once for each
\* completion of task.
BindShortCircuits ==
    \A cb \in BindCallbacks :
        /\ \A j \in 1..Len(trace) :
            (trace[j].ev = "cont" /\ trace[j].cb = cb) =>
                j > 1 /\ trace[j - 1].ev = "call" /\ trace[j - 1].cb = cb /\ trace[j - 1].val.name = "Ok"
        /\ \A j \in 1..Len(trace) :
            (trace[j].ev = "call" /\ trace[j].cb = cb /\ trace[j].val.name # "Ok") =>
                j < Len(trace) /\ trace[j + 1] = Called(cb.cb, trace[j].val)
        /\ CallsOf(cb.cb) <= CallsOf(cb)

\* a first task completed with Ok and its continuation ran, and a task bound after
\* it completed with Err
BindWitness ==
    /\ \E j \in 1..Len(trace) : trace[j].ev = "cont"
    /\ \E j \in 1..Len(trace) :
        trace[j].ev = "call" /\ trace[j].cb.k = "bind" /\ trace[j].val.name = "Err"
    /\ \E j \in 1..Len(trace) : trace[j] = Called(Settle, tag("Err", VStr("ENOENT")))

Parsed == op = "parse"

RECURSIVE Parts(_)
\* the expressions an expression is made of, itself included
Parts(e) ==
    {e} \cup
    IF e.type = "str" THEN UNION {Parts(e.parts[j]) : j \in 1..Len(e.parts)}
    ELSE IF e.type = "rec" THEN UNION {Parts(e.record[j][2]) : j \in 1..Len(e.record)}
    ELSE IF e.type = "app" THEN Parts(e.fn) \cup UNION {Parts(e.args[j]) : j \in 1..Len(e.args)}
    ELSE IF e.type = "lam" THEN Parts(e.body)
    ELSE {}

\* the identifiers of the expression are names, as the property test draws them
NamesOnly(e) == \A p \in Parts(e) : p.type = "id" => Word(p.name).k = "name"

\* C21 (as claimed). Format is inverse to parse: for every expression made of
\* literals, template strings, records, identifiers, applications and lambdas,
\* parse(expr, format(ast)) is structurally equal to ast.
FormatInverseToParse == (Parsed /\ NamesOnly(ex)) => (res.ok /\ res.v = ex)

\* what of C21 holds of the code: with an anchored symPattern the round trip holds
\* for an expression in which no lambda stands where an application or an operator
\* would follow it, and every operator is applied to two arguments
FormatInverseOffLambdaCalls ==
    (Parsed /\ res.anchored /\
        \A e \in Parts(ex) :
            e.type = "app" =>
                /\ e.fn.type # "lam"
                /\ e.fn = EId("+") => (Len(e.args) = 2 /\ e.args[1].type # "lam"))
    => res.ok /\ res.v = ex

====
